---------------------------- MODULE Spec2Model ----------------------------
(***************************************************************************)
(* A model of askiplot (include/askiplot.hpp): the Brush glyph value, the  *)
(* Plot canvas with its palette and axis state, position resolution and    *)
(* adjustment, fusion, Shift/Move, text drawing and serialization.         *)
(*                                                                         *)
(* Strings are sequences of byte codes (0..255), so that std::isprint, the *)
(* 1-or-2 byte glyph rule and Serialize's concatenation are computed, not  *)
(* assumed.  Columns and rows are 0-based as in the source; the canvas is  *)
(* the flat column-major vector canvas_ (a TLA+ sequence, hence +1).       *)
(***************************************************************************)
EXTENDS Integers, Sequences, FiniteSets, TLC

VARIABLES
  plot,    \* the canvas the calls are made on (*this)
  other,   \* a second canvas, the const source of Fuse
  brush,   \* a stand-alone Brush object
  hist,    \* the last two calls: op, arguments, exception, receiver before
  ncalls,  \* how many calls were made, where the specification counts them
  build,   \* what value_ holds after value_[0] = ' ' on an empty string
  grouper, \* a BarGrouper whose base plot is the canvas `plot`
  grid,    \* a GridPlot: its slices and its sub-canvases
  gamma    \* a TextGamma object the caller keeps between calls

vars == <<plot, other, brush, hist, ncalls, build, grouper, grid, gamma>>

----------------------------------------------------------------------------
(* Bounds of the model *)

MaxDim == 2        \* canvases are 1..MaxDim wide and high
MaxLen == 3        \* drawn texts have at most MaxLen characters
MaxCalls == 2      \* calls per run in the specifications that chain calls
MantBits == 4      \* significand bits of a double in the model (53 in the build)

MaxOff == MaxDim
Dims == 1..MaxDim
Offs == (0 - MaxOff)..MaxOff
Sizes == Dims \X Dims

----------------------------------------------------------------------------
(* Bytes and strings *)

TAB == 9
LF == 10
CR == 13
SPACE == 32
PrintFirst == 32
PrintLast == 126

\* std::isprint in the "C" locale
IsPrint(b) == PrintFirst <= b /\ b <= PrintLast

RECURSIVE Concat(_)
Concat(ss) == IF ss = <<>> THEN <<>> ELSE Head(ss) \o Concat(Tail(ss))

DefaultBrushMain == <<95>>
DefaultBrushArea == <<35>>
DefaultBrushBlank == <<32>>
DefaultBrushBorderTop == <<95>>
DefaultBrushBorderBottom == <<95>>
DefaultBrushBorderLeft == <<124>>
DefaultBrushBorderRight == <<124>>
DefaultBrushLineHorizontal == <<45>>
DefaultBrushLineVertical == <<124>>

----------------------------------------------------------------------------
(* Brush *)

\* value_[0] = b.  On an empty value_ the store goes through the terminator
\* slot, which is undefined: the build decides what the string holds after.
StoreFirst(value_, b) ==
  IF Len(value_) = 0 THEN build ELSE [value_ EXCEPT ![1] = b]

\* Brush::SetValue: the new value_, or the exception
SetValue(value_, value) ==
  IF Len(value) = 0 THEN
    [threw |-> "InvalidBrushValue", value_ |-> value_]
  ELSE IF IsPrint(value[1]) THEN
    [threw |-> "", value_ |-> <<value[1]>>]
  ELSE IF Len(value) = 1 THEN
    IF value[1] = TAB \/ value[1] = LF \/ value[1] = CR
      THEN [threw |-> "", value_ |-> StoreFirst(value_, SPACE)]
      ELSE [threw |-> "InvalidBrushValue", value_ |-> value_]
  ELSE
    [threw |-> "", value_ |-> <<value[1], value[2]>>]

SetName(name) == IF name = "" THEN "*" ELSE name

\* Brush(name, value): SetName, then SetValue on the empty value_
BrushNamed(name, value) ==
  LET r == SetValue(<<>>, value)
  IN  [threw |-> r.threw, b |-> [name |-> SetName(name), value |-> r.value_]]

\* Brush(value), Brush(const char*), Brush(char): the general brush "*"
BrushOf(value) == BrushNamed("*", value)

\* Brush(): the default cell
BrushDefault == [name |-> "Blank", value |-> SetValue(<<>>, DefaultBrushBlank).value_]

IsGeneral(b) == b.name = "*"

----------------------------------------------------------------------------
(* Palette *)

DefaultNames ==
  {"Main", "Blank", "Area", "LineHorizontal", "LineVertical",
   "BorderTop", "BorderBottom", "BorderLeft", "BorderRight"}

\* Palette::Reset
PaletteReset ==
  [n \in DefaultNames |->
     CASE n = "Main" -> DefaultBrushMain
       [] n = "Blank" -> DefaultBrushBlank
       [] n = "Area" -> DefaultBrushArea
       [] n = "LineHorizontal" -> DefaultBrushLineHorizontal
       [] n = "LineVertical" -> DefaultBrushLineVertical
       [] n = "BorderTop" -> DefaultBrushBorderTop
       [] n = "BorderBottom" -> DefaultBrushBorderBottom
       [] n = "BorderLeft" -> DefaultBrushBorderLeft
       [] OTHER -> DefaultBrushBorderRight]

\* Palette::operator()(name, value): Brush brush(name, value), then
\* brushes_[brush.GetName()] = brush.GetValue()
PaletteSet(brushes_, name, value) ==
  LET r == BrushNamed(name, value)
  IN  IF r.threw # "" THEN [threw |-> r.threw, brushes_ |-> brushes_]
      ELSE [threw |-> "",
            brushes_ |-> [n \in DOMAIN brushes_ \cup {r.b.name} |->
                            IF n = r.b.name THEN r.b.value ELSE brushes_[n]]]

\* Palette::GetBrush: Brush() for an unknown name, else Brush(name, stored)
GetBrush(brushes_, brush_name) ==
  IF brush_name \notin DOMAIN brushes_
    THEN [threw |-> "", b |-> BrushDefault]
    ELSE BrushNamed(brush_name, brushes_[brush_name])

----------------------------------------------------------------------------
(* Offset and Position *)

Offset(col, row) == [col |-> col, row |-> row]

Position(offset, relative) == [offset |-> offset, relative |-> relative]

Anchors ==
  {"North", "NorthEast", "East", "SouthEast", "South",
   "SouthWest", "West", "NorthWest", "Center"}

OffsetPlus(a, b) == Offset(a.col + b.col, a.row + b.row)

OffsetMinus(a, b) == Offset(a.col - b.col, a.row - b.row)

\* operator-(Position, Offset)
PositionMinus(position, offset) ==
  Position(OffsetMinus(position.offset, offset), position.relative)

\* operator+(Position, Offset)
PositionPlus(position, offset) ==
  Position(OffsetPlus(position.offset, offset), position.relative)

IsAbsolute(position) == position.relative = "SouthWest"

Min(a, b) == IF a < b THEN a ELSE b

Max(a, b) == IF a > b THEN a ELSE b

----------------------------------------------------------------------------
(* double: binary floating point, round to nearest, ties to even *)

\* A double is <<n, d>>, the number n/d in lowest terms with d a power of
\* two and at most MantBits significant bits in n.  Every operation computes
\* the exact result and rounds it as the hardware does; the exponent range
\* is not bounded (no overflow or underflow at the magnitudes drawn here).

RECURSIVE Lowest(_, _)
Lowest(n, d) ==
  IF d > 1 /\ n % 2 = 0 /\ d % 2 = 0 THEN Lowest(n \div 2, d \div 2) ELSE <<n, d>>

\* n/d > 0 rounded to MantBits significant bits
RECURSIVE RoundPos(_, _)
RoundPos(n, d) ==
  IF n >= d * 2^MantBits
    THEN LET h == RoundPos(n, 2 * d) IN <<2 * h[1], h[2]>>
  ELSE IF n < d * 2^(MantBits - 1)
    THEN LET h == RoundPos(2 * n, d) IN <<h[1], 2 * h[2]>>
  ELSE LET q == n \div d
           r == n % d
       IN  <<IF 2 * r > d \/ (2 * r = d /\ q % 2 = 1) THEN q + 1 ELSE q, 1>>

\* the double nearest to n/d, d > 0
DblOf(n, d) ==
  IF n = 0 THEN <<0, 1>>
  ELSE IF n > 0 THEN LET h == RoundPos(n, d) IN Lowest(h[1], h[2])
  ELSE LET h == RoundPos(0 - n, d) IN Lowest(0 - h[1], h[2])

DblAdd(a, b) == DblOf(a[1] * b[2] + b[1] * a[2], a[2] * b[2])
DblSub(a, b) == DblOf(a[1] * b[2] - b[1] * a[2], a[2] * b[2])
DblMul(a, b) == DblOf(a[1] * b[1], a[2] * b[2])

\* a / b for b # 0
DblDiv(a, b) ==
  IF b[1] > 0 THEN DblOf(a[1] * b[2], a[2] * b[1])
              ELSE DblOf(0 - a[1] * b[2], 0 - a[2] * b[1])

DblLess(a, b) == a[1] * b[2] < b[1] * a[2]
DblAbs(a) == IF a[1] < 0 THEN <<0 - a[1], a[2]>> ELSE a
DblMin(a, b) == IF DblLess(b, a) THEN b ELSE a
DblMax(a, b) == IF DblLess(a, b) THEN b ELSE a

\* static_cast<int>(a): truncation toward zero
DblInt(a) == IF a[1] >= 0 THEN a[1] \div a[2] ELSE 0 - ((0 - a[1]) \div a[2])

\* the largest double below 1 and the smallest above 1
BelowOne == <<2^MantBits - 1, 2^MantBits>>
AboveOne == <<2^(MantBits - 1) + 1, 2^(MantBits - 1)>>

----------------------------------------------------------------------------
(* Plot: construction and cell access *)

Borders == {"Left", "Right", "Bottom", "Top"}

\* What an int member that was never assigned may hold
Indeterminate == {0 - 1, 0, 1, 2}

\* The columns and rows ioctl(TIOCGWINSZ) may report
WinSizes == {1, 2, 3}

\* the members a constructed __Plot holds besides the grid
PlotState(w, h, cells) ==
  [width_ |-> w, height_ |-> h, canvas_ |-> cells,
   palette_ |-> PaletteReset, autolimit_ |-> Borders,
   xlim_margin_ |-> DblOf(1, 100), xlim_left_ |-> DblOf(0, 1),
   xlim_right_ |-> DblOf(1, 1),
   ylim_margin_ |-> DblOf(20, 1000), ylim_bottom_ |-> DblOf(0, 1),
   ylim_top_ |-> DblOf(1, 1),
   title_ |-> <<>>, metadata_ |-> <<>>]

\* __Plot::__Plot(width, height).  ws is what the terminal query stored,
\* junk what width_ and height_ held before the constructor body ran.
PlotCtor(width, height, ws, junk) ==
  IF width < 0 \/ height < 0 THEN [threw |-> "InvalidPlotSize"]
  ELSE
    LET query == width = 0 \/ height = 0
        w == IF query THEN (IF width = 0 THEN ws.ws_col ELSE junk.width_) ELSE width
        h == IF query THEN (IF height = 0 THEN ws.ws_row - 1 ELSE junk.height_)
                      ELSE height
    IN  IF h * w < 0 THEN [threw |-> "length_error", width_ |-> w, height_ |-> h]
        ELSE [threw |-> "",
              p |-> PlotState(w, h, [k \in 1..(h * w) |-> BrushDefault])]

\* Plot(width, height) with both sizes explicit and positive
NewPlot(width, height) ==
  PlotCtor(width, height, [ws_col |-> 0, ws_row |-> 0],
           [width_ |-> 0, height_ |-> 0]).p

\* the index of At(col, row) in canvas_: row + height_*col
Idx(p, col, row) == row + p.height_ * col + 1

InGrid(p, col, row) == 0 <= col /\ col < p.width_ /\ 0 <= row /\ row < p.height_

\* At(col, row) read.  At does no bounds check: outside canvas_ the read is
\* undefined, and the model never relies on it.
At(p, col, row) ==
  IF Idx(p, col, row) \in 1..Len(p.canvas_)
    THEN p.canvas_[Idx(p, col, row)] ELSE BrushDefault

\* At(col, row) = b on the flat vector
Store(p, canvas, col, row, b) ==
  IF Idx(p, col, row) \in 1..Len(canvas)
    THEN [canvas EXCEPT ![Idx(p, col, row)] = b] ELSE canvas

\* a sequence of assignments At(w.col, w.row) = w.b, in program order: each
\* slot of the vector ends with what the last assignment to it stored
StoreAll(p, canvas, ws) ==
  [x \in 1..Len(canvas) |->
     LET hits == {k \in 1..Len(ws) : Idx(p, ws[k].col, ws[k].row) = x}
     IN  IF hits = {} THEN canvas[x]
         ELSE ws[CHOOSE k \in hits : \A j \in hits : j <= k].b]

\* whether some assignment of ws names a cell that is not on the grid
OffGrid(p, ws) == \E k \in 1..Len(ws) : ~InGrid(p, ws[k].col, ws[k].row)

\* the index pairs of  for (i = ib; i < ie; ++i) for (j = jb; j < je; ++j)
LoopNest(ib, ie, jb, je) ==
  LET ni == Max(ie - ib, 0)
      nj == Max(je - jb, 0)
  IN  [k \in 1..(ni * nj) |-> <<ib + ((k - 1) \div nj), jb + ((k - 1) % nj)>>]

----------------------------------------------------------------------------
(* Fill, Clear, Serialize *)

FillWrites(p, b) ==
  LET ij == LoopNest(0, p.width_, 0, p.height_)
  IN  [k \in 1..Len(ij) |-> [col |-> ij[k][1], row |-> ij[k][2], b |-> b]]

\* __Plot::Fill(brush)
Fill(p, b) == [p EXCEPT !.canvas_ = StoreAll(p, p.canvas_, FillWrites(p, b))]

\* __Plot::Clear: Fill(palette_.GetBrush("Blank"))
Clear(p) ==
  LET g == GetBrush(p.palette_, "Blank")
  IN  IF g.threw # "" THEN [threw |-> g.threw, p |-> p]
      ELSE [threw |-> "", p |-> Fill(p, g.b)]

\* the inner loop of Serialize: ss << At(i, j).GetValue() for i = i..width_-1
RECURSIVE SerializeRow(_, _, _, _)
SerializeRow(p, j, i, ss) ==
  IF i >= p.width_ THEN ss
  ELSE SerializeRow(p, j, i + 1, ss \o At(p, i, j).value)

\* the outer loop of Serialize: for (j = height_-1; j >= 0; --j) ... ss << "\n"
RECURSIVE SerializeFrom(_, _, _)
SerializeFrom(p, j, ss) ==
  IF j < 0 THEN ss
  ELSE SerializeFrom(p, j - 1, SerializeRow(p, j, 0, ss) \o <<LF>>)

RECURSIVE SerializeUpFrom(_, _, _)
SerializeUpFrom(p, j, ss) ==
  IF j >= p.height_ THEN ss
  ELSE SerializeUpFrom(p, j + 1, SerializeRow(p, j, 0, ss) \o <<LF>>)

\* Serialize were it to print row 0 first
SerializeBottomUp(p) == SerializeUpFrom(p, 0, <<>>)

\* __Plot::Serialize
Serialize(p) == SerializeFrom(p, p.height_ - 1, <<>>)

----------------------------------------------------------------------------
(* Position resolution and adjustment *)

\* anchors taken at the size instead of the last column and row
GetAbsolutePositionEdge(p, position) ==
  LET w == p.width_
      h == p.height_
      r == position.relative
      a == CASE r = "North" -> Offset(w \div 2, h)
             [] r = "NorthEast" -> Offset(w, h)
             [] r = "East" -> Offset(w, h \div 2)
             [] r = "SouthEast" -> Offset(w, 0)
             [] r = "South" -> Offset(w \div 2, 0)
             [] r = "West" -> Offset(0, h \div 2)
             [] r = "NorthWest" -> Offset(0, h)
             [] r = "Center" -> Offset(w \div 2, h \div 2)
             [] OTHER -> Offset(0, 0)
  IN  Position(OffsetPlus(position.offset, a), "SouthWest")

\* __Plot::GetAbsolutePosition
GetAbsolutePosition(p, position) ==
  LET w == p.width_
      h == p.height_
      r == position.relative
      a == CASE r = "North" -> Offset(w \div 2, h - 1)
             [] r = "NorthEast" -> Offset(w - 1, h - 1)
             [] r = "East" -> Offset(w - 1, h \div 2)
             [] r = "SouthEast" -> Offset(w - 1, 0)
             [] r = "South" -> Offset(w \div 2, 0)
             [] r = "West" -> Offset(0, h \div 2)
             [] r = "NorthWest" -> Offset(0, h - 1)
             [] r = "Center" -> Offset(w \div 2, h \div 2)
             [] OTHER -> Offset(0, 0)
  IN  Position(OffsetPlus(position.offset, a), "SouthWest")

\* __Plot::AdjustAbsolutePosition: the position as the call leaves it
AdjustAbsolutePosition(p, position, box_width, box_height, drawing_upwards) ==
  LET pos == IF ~IsAbsolute(position) THEN GetAbsolutePosition(p, position)
                                      ELSE position
      new_col0 == Max(0, pos.offset.col)
      new_row0 == Min(p.height_ - 1, pos.offset.row)
      free_cols == p.width_ - new_col0
      free_rows == IF drawing_upwards THEN p.height_ - new_row0 ELSE new_row0 + 1
      new_col == IF free_cols < box_width THEN Max(0, p.width_ - box_width)
                                          ELSE new_col0
      new_row == IF free_rows < box_height
                   THEN (IF drawing_upwards THEN Max(0, p.height_ - box_height)
                                            ELSE Min(p.height_ - 1, box_height - 1))
                   ELSE new_row0
  IN  Position(Offset(new_col, new_row), pos.relative)

----------------------------------------------------------------------------
(* Fusion, Shift, Move *)

\* the offset Fuse copies at: pos_abs.offset
FuseOffset(p, o, position, adjust) ==
  LET pos_abs == GetAbsolutePosition(p, position)
  IN  IF adjust
        THEN AdjustAbsolutePosition(p, pos_abs, o.width_, o.height_, TRUE).offset
        ELSE pos_abs.offset

\* Fuse's loops were the column range not clipped to the destination
FuseWritesUnclipped(p, o, position, keep_blanks, adjust) ==
  LET offset == FuseOffset(p, o, position, adjust)
      off_c == offset.col
      off_r == offset.row
      row_beg == Max(0, 0 - off_r)
      row_end == Min(o.height_, p.height_ - off_r)
      ij == LoopNest(0, o.width_, row_beg, row_end)
      all == [k \in 1..Len(ij) |->
                [col |-> ij[k][1] + off_c, row |-> ij[k][2] + off_r,
                 b |-> At(o, ij[k][1], ij[k][2])]]
      NotBlank(w) == ~(w.b.name = "Blank")
  IN  IF keep_blanks THEN all ELSE SelectSeq(all, NotBlank)

\* Fuse's loops were a blank told by its glyph, a space, not by its name
FuseWritesByGlyph(p, o, position, keep_blanks, adjust) ==
  LET offset == FuseOffset(p, o, position, adjust)
      off_c == offset.col
      off_r == offset.row
      col_beg == Max(0, 0 - off_c)
      col_end == Min(o.width_, p.width_ - off_c)
      row_beg == Max(0, 0 - off_r)
      row_end == Min(o.height_, p.height_ - off_r)
      ij == LoopNest(col_beg, col_end, row_beg, row_end)
      all == [k \in 1..Len(ij) |->
                [col |-> ij[k][1] + off_c, row |-> ij[k][2] + off_r,
                 b |-> At(o, ij[k][1], ij[k][2])]]
      NotBlank(w) == ~(w.b.value = <<SPACE>>)
  IN  IF keep_blanks THEN all ELSE SelectSeq(all, NotBlank)

\* the assignments of Fuse's loops, in program order
FuseWrites(p, o, position, keep_blanks, adjust) ==
  LET offset == FuseOffset(p, o, position, adjust)
      off_c == offset.col
      off_r == offset.row
      col_beg == Max(0, 0 - off_c)
      col_end == Min(o.width_, p.width_ - off_c)
      row_beg == Max(0, 0 - off_r)
      row_end == Min(o.height_, p.height_ - off_r)
      ij == LoopNest(col_beg, col_end, row_beg, row_end)
      all == [k \in 1..Len(ij) |->
                [col |-> ij[k][1] + off_c, row |-> ij[k][2] + off_r,
                 b |-> At(o, ij[k][1], ij[k][2])]]
      NotBlank(w) == ~(w.b.name = "Blank")
  IN  IF keep_blanks THEN all ELSE SelectSeq(all, NotBlank)

\* __Plot::Fuse(other, position, keep_blanks, adjust)
Fuse(p, o, position, keep_blanks, adjust) ==
  [p EXCEPT !.canvas_ =
     StoreAll(p, p.canvas_, FuseWrites(p, o, position, keep_blanks, adjust))]

\* BlankLike(plot): T(plot.GetWidth(), plot.GetHeight())
BlankLike(p) == NewPlot(p.width_, p.height_)

\* Shift were content leaving at one edge to come back in at the other
ShiftAround(p, offset) ==
  [BlankLike(p) EXCEPT
     !.canvas_ = [x \in 1..Len(p.canvas_) |->
                    At(p, (((x - 1) \div p.height_) - offset.col) % p.width_,
                          (((x - 1) % p.height_) - offset.row) % p.height_)]]

\* __Plot::Shift: fuse *this onto BlankLike(*this), then *this = shifted_plot
Shift(p, offset) ==
  Fuse(BlankLike(p), p, Position(offset, "SouthWest"), TRUE, FALSE)

\* __Plot::Move: copy, Clear, fuse the copy back at the offset.  The source
\* writes Fuse(copy, offset, DontAdjust); the one flag is read as in
\* askiplot/askiplot.hpp, Fusion()(copy, offset, DontAdjust).Fuse(): the
\* position is not adjusted and blanks are kept.
Move(p, offset) ==
  LET c == Clear(p)
  IN  IF c.threw # "" THEN c
      ELSE [threw |-> "",
            p |-> Fuse(c.p, p, Position(offset, "SouthWest"), TRUE, FALSE)]

----------------------------------------------------------------------------
(* Text *)

\* the assignments At(i + col, row) = Brush("*", text[i]) for i = i..n-1, up
\* to the first character whose Brush cannot be built
RECURSIVE TextRun(_, _, _, _, _, _)
TextRun(text, i, n, col, row, down) ==
  IF i >= n THEN [threw |-> "", ws |-> <<>>]
  ELSE
    LET r == BrushNamed("*", <<text[i + 1]>>)
    IN  IF r.threw # "" THEN [threw |-> r.threw, ws |-> <<>>]
        ELSE
          LET rest == TextRun(text, i + 1, n, col, row, down)
              w == IF down THEN [col |-> col, row |-> row - i, b |-> r.b]
                           ELSE [col |-> i + col, row |-> row, b |-> r.b]
          IN  [threw |-> rest.threw, ws |-> <<w>> \o rest.ws]

\* where DrawText starts: the resolved, and on request adjusted, position
TextOrigin(p, text, position, adjust, down) ==
  LET pos_abs == GetAbsolutePosition(p, position)
  IN  IF adjust
        THEN (IF down THEN AdjustAbsolutePosition(p, pos_abs, 1, Len(text), FALSE)
                      ELSE AdjustAbsolutePosition(p, pos_abs, Len(text), 1, FALSE)).offset
        ELSE pos_abs.offset

\* DrawText's loop were the text not cut at the right edge
DrawTextWritesUncut(p, text, position, adjust) ==
  LET o == TextOrigin(p, text, position, adjust, FALSE)
      cut_out == 0 - Min(0, o.col)
  IN  IF 0 <= o.row /\ o.row < p.height_
        THEN TextRun(text, cut_out, Len(text), o.col, o.row, FALSE)
        ELSE [threw |-> "", ws |-> <<>>]

DrawTextWrites(p, text, position, adjust) ==
  LET o == TextOrigin(p, text, position, adjust, FALSE)
      n == Min(p.width_ - o.col, Len(text))
      cut_out == 0 - Min(0, o.col)
  IN  IF 0 <= o.row /\ o.row < p.height_
        THEN TextRun(text, cut_out, n, o.col, o.row, FALSE)
        ELSE [threw |-> "", ws |-> <<>>]

\* __Plot::DrawText
DrawText(p, text, position, adjust) ==
  LET r == DrawTextWrites(p, text, position, adjust)
  IN  [threw |-> r.threw, p |-> [p EXCEPT !.canvas_ = StoreAll(p, p.canvas_, r.ws)]]

\* __Plot::DrawTextCentered
DrawTextCentered(p, text, position, adjust) ==
  DrawText(p, text, PositionMinus(position, Offset(Len(text) \div 2, 0)), adjust)

DrawTextVerticalWrites(p, text, position, adjust) ==
  LET o == TextOrigin(p, text, position, adjust, TRUE)
      n == Min(o.row + 1, Len(text))
      cut_out == Max(o.row - p.height_ + 1, 0)
  IN  IF 0 <= o.col /\ o.col < p.width_
        THEN TextRun(text, cut_out, n, o.col, o.row, TRUE)
        ELSE [threw |-> "", ws |-> <<>>]

\* __Plot::DrawTextVertical
DrawTextVertical(p, text, position, adjust) ==
  LET r == DrawTextVerticalWrites(p, text, position, adjust)
  IN  [threw |-> r.threw, p |-> [p EXCEPT !.canvas_ = StoreAll(p, p.canvas_, r.ws)]]

\* __Plot::DrawTextVerticalCentered
DrawTextVerticalCentered(p, text, position, adjust) ==
  DrawTextVertical(p, text, PositionPlus(position, Offset(0, Len(text) \div 2)), adjust)

----------------------------------------------------------------------------
(* Setters *)

\* __Plot::SetBrush(name, value): palette_(name, value)
SetBrush(p, name, value) ==
  LET r == PaletteSet(p.palette_, name, value)
  IN  [threw |-> r.threw, p |-> [p EXCEPT !.palette_ = r.brushes_]]

\* __Plot::SetTitle
SetTitle(p, title) == [p EXCEPT !.title_ = title]

\* __Plot::SetXlimLeft
SetXlimLeft(p, new_xlim_left) ==
  IF DblLess(new_xlim_left, p.xlim_right_)
    THEN [p EXCEPT !.xlim_left_ = new_xlim_left] ELSE p

\* __Plot::SetXlimRight
SetXlimRight(p, new_xlim_right) ==
  IF DblLess(p.xlim_left_, new_xlim_right)
    THEN [p EXCEPT !.xlim_right_ = new_xlim_right] ELSE p

\* __Plot::SetYlimBottom
SetYlimBottom(p, new_ylim_bottom) ==
  IF DblLess(new_ylim_bottom, p.ylim_top_)
    THEN [p EXCEPT !.ylim_bottom_ = new_ylim_bottom] ELSE p

\* __Plot::SetYlimTop
SetYlimTop(p, new_ylim_top) ==
  IF DblLess(p.ylim_bottom_, new_ylim_top)
    THEN [p EXCEPT !.ylim_top_ = new_ylim_top] ELSE p

\* __Plot::SetXlimits
SetXlimits(p, new_xlim_left, new_xlim_right) ==
  IF DblLess(new_xlim_left, new_xlim_right)
    THEN [p EXCEPT !.xlim_left_ = new_xlim_left, !.xlim_right_ = new_xlim_right]
    ELSE p

\* __Plot::SetYlimits
SetYlimits(p, new_ylim_bottom, new_ylim_top) ==
  IF DblLess(new_ylim_bottom, new_ylim_top)
    THEN [p EXCEPT !.ylim_bottom_ = new_ylim_bottom, !.ylim_top_ = new_ylim_top]
    ELSE p

\* __Plot::AutoLimit
AutoLimit(p, borders) == [p EXCEPT !.autolimit_ = borders]

----------------------------------------------------------------------------
(* Data space: automatic limits and points *)

\* *std::min_element and *std::max_element of a non-empty vector of doubles
MinElement(v) ==
  v[CHOOSE i \in 1..Len(v) : \A j \in 1..Len(v) : ~DblLess(v[j], v[i])]

MaxElement(v) ==
  v[CHOOSE i \in 1..Len(v) : \A j \in 1..Len(v) : ~DblLess(v[i], v[j])]

\* the lambdas x_margin_surplus and y_margin_surplus, on the limits of p
x_margin_surplus(p) ==
  DblAbs(DblMul(DblSub(p.xlim_right_, p.xlim_left_), p.xlim_margin_))

y_margin_surplus(p) ==
  DblAbs(DblMul(DblSub(p.ylim_top_, p.ylim_bottom_), p.ylim_margin_))

\* __Plot::SetAutoLimits, the block "Left and Right"
AutoLimitsX(p, x) ==
  IF Len(x) = 0 THEN p
  ELSE IF "Left" \in p.autolimit_ THEN
    IF "Right" \in p.autolimit_ THEN
      LET q == [p EXCEPT !.xlim_left_ = MinElement(x),
                         !.xlim_right_ = MaxElement(x)]
          ms == x_margin_surplus(q)
      IN  [q EXCEPT !.xlim_left_ = DblSub(q.xlim_left_, ms),
                    !.xlim_right_ = DblAdd(q.xlim_right_, ms)]
    ELSE
      LET q == [p EXCEPT !.xlim_left_ = MinElement(x)]
      IN  [q EXCEPT !.xlim_left_ = DblSub(q.xlim_left_, x_margin_surplus(q))]
  ELSE IF "Right" \in p.autolimit_ THEN
    LET q == [p EXCEPT !.xlim_right_ = MaxElement(x)]
    IN  [q EXCEPT !.xlim_right_ = DblAdd(q.xlim_right_, x_margin_surplus(q))]
  ELSE p

\* __Plot::SetAutoLimits, the block "Bottom and Top"
AutoLimitsY(p, y) ==
  IF Len(y) = 0 THEN p
  ELSE IF "Bottom" \in p.autolimit_ THEN
    IF "Top" \in p.autolimit_ THEN
      LET q == [p EXCEPT !.ylim_bottom_ = MinElement(y),
                         !.ylim_top_ = MaxElement(y)]
          ms == y_margin_surplus(q)
      IN  [q EXCEPT !.ylim_bottom_ = DblSub(q.ylim_bottom_, ms),
                    !.ylim_top_ = DblAdd(q.ylim_top_, ms)]
    ELSE
      LET q == [p EXCEPT !.ylim_bottom_ = MinElement(y)]
      IN  [q EXCEPT !.ylim_bottom_ = DblAdd(q.ylim_bottom_, y_margin_surplus(q))]
  ELSE IF "Top" \in p.autolimit_ THEN
    LET q == [p EXCEPT !.ylim_top_ = MaxElement(y)]
    IN  [q EXCEPT !.ylim_top_ = DblAdd(q.ylim_top_, y_margin_surplus(q))]
  ELSE p

\* __Plot::SetAutoLimits(x, y)
SetAutoLimits(p, x, y) == AutoLimitsY(AutoLimitsX(p, x), y)

\* whether (x, y) is strictly inside the limits of p
InLimits(p, x, y) ==
  /\ DblLess(p.xlim_left_, x) /\ DblLess(x, p.xlim_right_)
  /\ DblLess(p.ylim_bottom_, y) /\ DblLess(y, p.ylim_top_)

\* the cell a point inside the limits is stored to
PointCell(p, x, y) ==
  LET xstep == DblDiv(DblSub(p.xlim_right_, p.xlim_left_), DblOf(p.width_, 1))
      ystep == DblDiv(DblSub(p.ylim_top_, p.ylim_bottom_), DblOf(p.height_, 1))
  IN  [col |-> DblInt(DblDiv(DblSub(x, p.xlim_left_), xstep)),
       row |-> DblInt(DblDiv(DblSub(y, p.ylim_bottom_), ystep))]

\* the assignments of __Plot::DrawPoint(x, y)
DrawPointWrites(p, x, y) ==
  IF InLimits(p, x, y)
    THEN LET c == PointCell(p, x, y)
         IN  <<[col |-> c.col, row |-> c.row, b |-> GetBrush(p.palette_, "Main").b]>>
    ELSE <<>>

\* __Plot::DrawPoint(x, y)
DrawPoint(p, x, y) ==
  [p EXCEPT !.canvas_ = StoreAll(p, p.canvas_, DrawPointWrites(p, x, y))]

\* std::size_t arithmetic: numeric_limits<size_t>::max() is written 0 - 1
NoLimit == 0 - 1

SizeMin(a, b) == IF a < 0 THEN b ELSE IF b < 0 THEN a ELSE Min(a, b)

RECURSIVE PointsWrites(_, _, _, _)
PointsWrites(p, x, y, n) ==
  IF n = 0 THEN <<>>
  ELSE PointsWrites(p, x, y, n - 1) \o DrawPointWrites(p, x[n], y[n])

\* __Plot::DrawPoints(x, y, how_many)
DrawPoints(p, x, y, how_many) ==
  LET q == SetAutoLimits(p, x, y)
      n == SizeMin(SizeMin(Len(x), Len(y)), how_many)
  IN  [q EXCEPT !.canvas_ = StoreAll(q, q.canvas_, PointsWrites(q, x, y, n))]

\* __Plot::PlotData(x, y, label, how_many)
PlotData(p, x, y, label, how_many) ==
  LET q == DrawPoints(p, x, y, how_many)
  IN  [q EXCEPT !.metadata_ =
         Append(@, [label |-> label, length |-> how_many,
                    brush |-> GetBrush(q.palette_, "Main").b])]

----------------------------------------------------------------------------
(* Legend *)

\* __Plot::CalcBoxPosition
CalcBoxPosition(position, box_width, box_height) ==
  LET r == position.relative
      o == CASE r = "North" -> Offset(box_width \div 2, box_height)
             [] r = "East" -> Offset(box_width, box_height \div 2)
             [] r = "SouthEast" -> Offset(box_width, 0)
             [] r = "South" -> Offset(box_width \div 2, 0)
             [] r = "SouthWest" -> Offset(0, 0)
             [] r = "West" -> Offset(0, box_height \div 2)
             [] r = "NorthWest" -> Offset(0, box_height)
             [] r = "Center" -> Offset(box_width \div 2, box_height \div 2)
             [] OTHER -> Offset(box_width, box_height)
  IN  PositionMinus(position, o)

\* the size of the longest label of metadata_
LegendTextWidth(metadata) ==
  LET ls == {Len(metadata[k].label) : k \in 1..Len(metadata)}
  IN  CHOOSE n \in ls : \A l \in ls : l <= n

\* where DrawLegend puts its box, and how large the box is
LegendBox(p, position) ==
  LET box_width == LegendTextWidth(p.metadata_) + 6
      box_height == Len(p.metadata_) + 2
      box_abs_pos == GetAbsolutePosition(p,
                       CalcBoxPosition(position, box_width, box_height))
  IN  [pos_col |-> box_abs_pos.offset.col, pos_row |-> box_abs_pos.offset.row,
       box_width |-> box_width, box_height |-> box_height]

\* the assignments of DrawLegend's two border loops, in program order
LegendBorderWrites(box) ==
  LET brush_top == BrushNamed("BorderTop", DefaultBrushBorderTop).b
      brush_bottom == BrushNamed("BorderBottom", DefaultBrushBorderBottom).b
      brush_left == BrushNamed("BorderLeft", DefaultBrushBorderLeft).b
      brush_right == BrushNamed("BorderRight", DefaultBrushBorderRight).b
      hor == [k \in 1..(2 * box.box_width) |->
                [col |-> box.pos_col + ((k - 1) \div 2),
                 row |-> IF k % 2 = 1 THEN box.pos_row
                                      ELSE box.pos_row + box.box_height - 1,
                 b |-> IF k % 2 = 1 THEN brush_bottom ELSE brush_top]]
      ver == [k \in 1..(2 * (box.box_height - 1)) |->
                [col |-> IF k % 2 = 1 THEN box.pos_col
                                      ELSE box.pos_col + box.box_width - 1,
                 row |-> box.pos_row + ((k - 1) \div 2),
                 b |-> IF k % 2 = 1 THEN brush_left ELSE brush_right]]
  IN  hor \o ver

\* the text of one legend line: brush.GetValue() + " " + label
LegendLine(e) == e.brush.value \o <<SPACE>> \o e.label

\* the row DrawLegend writes entry i of metadata_ (from 0) on
LegendRow(box, i) == box.pos_row + box.box_height - 2 - i

\* the assignments of DrawLegend's label loop from entry i on: one DrawText
\* per entry, the loop left at the first DrawText that throws.  DrawText
\* places its text by the size of the canvas alone, so the assignments of
\* all entries are those computed on p.
RECURSIVE LegendLabelWrites(_, _, _)
LegendLabelWrites(p, box, i) ==
  IF i >= Len(p.metadata_) THEN [threw |-> "", ws |-> <<>>]
  ELSE
    LET r == DrawTextWrites(p, LegendLine(p.metadata_[i + 1]),
                            Position(Offset(box.pos_col + 2, LegendRow(box, i)),
                                     "SouthWest"), TRUE)
    IN  IF r.threw # "" THEN r
        ELSE LET rest == LegendLabelWrites(p, box, i + 1)
             IN  [threw |-> rest.threw, ws |-> r.ws \o rest.ws]

\* every assignment of DrawLegend, in program order
LegendWrites(p, position) ==
  LET box == LegendBox(p, position)
  IN  LegendBorderWrites(box) \o LegendLabelWrites(p, box, 0).ws

\* __Plot::DrawLegend(position)
DrawLegend(p, position) ==
  IF Len(p.metadata_) = 0 THEN [threw |-> "", p |-> p]
  ELSE [threw |-> LegendLabelWrites(p, LegendBox(p, position), 0).threw,
        p |-> [p EXCEPT !.canvas_ =
                 StoreAll(p, p.canvas_, LegendWrites(p, position))]]

----------------------------------------------------------------------------
(* Bars: Bar, BarPlot and BarGrouper *)

\* int / int of C++: the quotient truncated toward zero, b # 0
IntDiv(a, b) ==
  LET q == (IF a < 0 THEN 0 - a ELSE a) \div (IF b < 0 THEN 0 - b ELSE b)
  IN  IF (a < 0) = (b < 0) THEN q ELSE 0 - q

\* std::to_string of an integer
RECURSIVE DigitsOf(_)
DigitsOf(n) ==
  IF n < 10 THEN <<48 + n>> ELSE Append(DigitsOf(n \div 10), 48 + (n % 10))

FormatValue(n) == IF n < 0 THEN <<45>> \o DigitsOf(0 - n) ELSE DigitsOf(n)

\* Bar{}: every member value-initialised
BarZero ==
  [col_ |-> 0, empty_ |-> FALSE, width_ |-> 0, height_ |-> 0, name_ |-> <<>>,
   brush_ |-> BrushDefault]

\* a BarPlot: a Plot with the list bars_
NewBarPlot(width, height) ==
  LET p == NewPlot(width, height)
  IN  [f \in DOMAIN p \cup {"bars_"} |-> IF f = "bars_" THEN <<>> ELSE p[f]]

\* the assignments of DrawBar for width < 3: each column gets `height` area
\* cells and then its top cell, At(col + k, height)
NarrowBarWrites(p, col, width, height, brush_area) ==
  LET nb == Max(height, 0) + 1
      top == GetBrush(p.palette_, "BorderTop").b
  IN  [x \in 1..(Max(width, 0) * nb) |->
         LET k == (x - 1) \div nb
             j == (x - 1) % nb
         IN  IF j = nb - 1 THEN [col |-> col + k, row |-> height, b |-> top]
                           ELSE [col |-> col + k, row |-> j, b |-> brush_area]]

\* the assignments of DrawBar for width >= 3
WideBarWrites(p, col, width, height, brush_area) ==
  LET kj == LoopNest(0, width, 0, height + 1)
      top == GetBrush(p.palette_, "BorderTop").b
      left == GetBrush(p.palette_, "BorderLeft").b
      right == GetBrush(p.palette_, "BorderRight").b
      all == [x \in 1..Len(kj) |->
                LET k == kj[x][1]
                    j == kj[x][2]
                IN  [col |-> col + k, row |-> j,
                     skip |-> (k = 0 \/ k = width - 1) /\ j = height,
                     b |-> IF k = 0 THEN left
                           ELSE IF k = width - 1 THEN right
                           ELSE IF j = height THEN top ELSE brush_area]]
      kept == SelectSeq(all, LAMBDA w : ~w.skip)
  IN  [x \in 1..Len(kept) |->
         [col |-> kept[x].col, row |-> kept[x].row, b |-> kept[x].b]]

\* the assignments of __BarPlot::DrawBar(col, width, height, brush_area)
DrawBarWrites(p, col, width, height, brush_area) ==
  IF width = 0 THEN <<>>
  ELSE IF width < 3 THEN NarrowBarWrites(p, col, width, height, brush_area)
  ELSE WideBarWrites(p, col, width, height, brush_area)

\* the assignments of __BarPlot::DrawBar(bar)
BarWrites(p, bar) ==
  IF bar.empty_ THEN <<>>
  ELSE DrawBarWrites(p, bar.col_, bar.width_, bar.height_, bar.brush_)

\* the assignments of __BarPlot::DrawBars(bars), bar after bar
RECURSIVE DrawBarsWrites(_, _)
DrawBarsWrites(p, bars) ==
  IF bars = <<>> THEN <<>>
  ELSE BarWrites(p, Head(bars)) \o DrawBarsWrites(p, Tail(bars))

\* __BarPlot::DrawBars(bars)
DrawBars(p, bars) ==
  [p EXCEPT !.canvas_ = StoreAll(p, p.canvas_, DrawBarsWrites(p, bars))]

\* __BarPlot::PlotBars(bars)
PlotBars(p, bars) ==
  DrawBars([p EXCEPT !.bars_ = SelectSeq(bars, LAMBDA b : ~b.empty_)], bars)

\* kSymbolBrushes = StringToBrushes("@$*#.+&*=?,-%!^\"<~>'")
StringToBrushes(str) == [k \in 1..Len(str) |-> BrushNamed("*", <<str[k]>>).b]

kSymbolBrushes ==
  StringToBrushes(<<64, 36, 42, 35, 46, 43, 38, 42, 61, 63, 44, 45, 37, 33, 94,
                    34, 60, 126, 62, 39>>)

\* BarGrouper::BarGrouper(baseplot, brushes)
NewGrouper ==
  [live |-> TRUE, group_size_ |-> 0, ngroups_ |-> 0, metadata_ |-> <<>>,
   brushes_ |-> kSymbolBrushes, brush_index_ |-> 0, group_names_ |-> TRUE]

\* BarGrouper::Add(ydata, label, brush) for Ty = int.  The transform reads
\* ngroups_ elements from ydata.begin(): an element past the end of ydata is
\* whatever the memory holds (junk).
Add(g, p, ydata, label, b, junk) ==
  IF (g.group_size_ + 1) * g.ngroups_ - 1 <= p.width_ THEN
    LET n == Max(g.ngroups_, Len(ydata))
        ydata_double == [k \in 1..n |->
                           IF k <= Len(ydata) THEN DblOf(ydata[k], 1) ELSE junk]
        current_min == MinElement(ydata_double)
        current_max == MaxElement(ydata_double)
        q == SetYlimits(p, DblMin(p.ylim_bottom_, current_min),
                           DblMax(p.ylim_top_, current_max))
    IN  [g |-> [g EXCEPT !.group_size_ = @ + 1, !.ngroups_ = n,
                         !.metadata_ =
                           Append(@, [label |-> label, brush |-> b, length |-> n,
                                      ydata |-> ydata_double, is_integer |-> TRUE])],
         p |-> [q EXCEPT !.metadata_ =
                  Append(@, [label |-> label, length |-> 0, brush |-> b])],
         accepted |-> TRUE,
         past_end |-> Len(ydata) < n]
  ELSE [g |-> g, p |-> p, accepted |-> FALSE, past_end |-> FALSE]

\* BarGrouper::Add(ydata, label): the next of brushes_
AddNext(g, p, ydata, label, junk) ==
  LET b == g.brushes_[(g.brush_index_ % Len(g.brushes_)) + 1]
  IN  Add([g EXCEPT !.brush_index_ = @ + 1], p, ydata, label, b, junk)

\* metadata_[j].ydata[i] as Commit reads it (i, j from 0)
CommitRead(g, i, j, junk) ==
  IF i < Len(g.metadata_[j + 1].ydata) THEN g.metadata_[j + 1].ydata[i + 1]
                                       ELSE junk

\* the bars BarGrouper::Commit(height_resize) builds
CommitBars(g, p, height_resize, junk) ==
  LET n_bars == g.ngroups_ * g.group_size_ + (g.ngroups_ - 1)
      width == IntDiv(p.width_, n_bars)
      ystep == DblDiv(DblSub(p.ylim_top_, p.ylim_bottom_), DblOf(p.height_, 1))
      to_height(y) == DblInt(DblDiv(DblSub(y, p.ylim_bottom_), ystep))
      slots == (g.group_size_ + 1) * g.ngroups_ - 1
  IN  [x \in 1..Max(slots, 0) |->
         LET i == (x - 1) \div (g.group_size_ + 1)
             j == (x - 1) % (g.group_size_ + 1)
         IN  IF j = g.group_size_ THEN [BarZero EXCEPT !.empty_ = TRUE]
             ELSE LET y == CommitRead(g, i, j, junk)
                  IN  [BarZero EXCEPT
                         !.name_ = FormatValue(DblInt(y)),
                         !.height_ = DblInt(DblMul(DblOf(to_height(y), 1),
                                                   height_resize)),
                         !.brush_ = g.metadata_[j + 1].brush,
                         !.col_ = (x - 1) * width,
                         !.width_ = width]]

\* whether Commit reads a series past its end
CommitPastEnd(g) ==
  \E j \in 1..g.group_size_ : Len(g.metadata_[j].ydata) < g.ngroups_

\* BarGrouper::Commit(height_resize)
Commit(g, p, height_resize, junk) ==
  PlotBars(p, CommitBars(g, p, height_resize, junk))

----------------------------------------------------------------------------
(* HistPlot *)

\* __HistPlot::__HistPlot: a BarPlot with nbins_ = GetWidth()
NewHistPlot(width, height) ==
  LET p == NewBarPlot(width, height)
  IN  [f \in DOMAIN p \cup {"nbins_"} |-> IF f = "nbins_" THEN p.width_ ELSE p[f]]

\* minimum and maximum of a non-empty vector<int>
IntMin(data) == CHOOSE v \in {data[k] : k \in 1..Len(data)} :
                  \A k \in 1..Len(data) : v <= data[k]

IntMax(data) == CHOOSE v \in {data[k] : k \in 1..Len(data)} :
                  \A k \in 1..Len(data) : v >= data[k]

\* int idx = (i - GetXlimLeft()) / step
BinOf(p, i, step) ==
  DblInt(DblDiv(DblSub(DblOf(i, 1), p.xlim_left_), DblOf(step, 1)))

\* bar_counts_ after the counting loop; an index outside the vector is a
\* store outside of it and changes no count
BarCounts(p, data, nbins, step) ==
  [b \in 1..nbins |->
     Cardinality({k \in 1..Len(data) : BinOf(p, data[k], step) = b - 1})]

\* whether the counting loop indexes bar_counts_ outside 0..nbins-1
CountsOffEnd(p, data, nbins, step) ==
  \E k \in 1..Len(data) : BinOf(p, data[k], step) \notin 0..(nbins - 1)

\* bar_heights_: i / static_cast<double>(max_bar_height) * GetHeight() * factor
BarHeights(p, counts, height_resize) ==
  LET max_bar_height == IntMax(counts)
      factor == DblMin(DblOf(1, 1), height_resize)
  IN  [b \in 1..Len(counts) |->
         DblInt(DblMul(DblMul(DblDiv(DblOf(counts[b], 1),
                                     DblOf(max_bar_height, 1)),
                              DblOf(p.height_, 1)),
                       factor))]

\* the vector bars: resize(nbins_) value-initialises nbins_ bars, and the
\* loop then pushes one more bar per bin behind them
HistBars(p, heights, nbins) ==
  LET bin_width == IntDiv(p.width_, nbins)
      area == GetBrush(p.palette_, "Area").b
  IN  [k \in 1..(2 * nbins) |->
         IF k <= nbins THEN BarZero
         ELSE [BarZero EXCEPT !.name_ = FormatValue(heights[k - nbins]),
                              !.height_ = heights[k - nbins],
                              !.brush_ = area,
                              !.col_ = (k - nbins - 1) * bin_width,
                              !.width_ = bin_width]]

\* __HistPlot::PlotHistogram(data, label, height_resize) for T = int and a
\* non-empty data.  With one distinct value step is an integer division by
\* zero: the build traps (ub = "trap"), or goes on with values that mean
\* nothing (the heights are junk).
PlotHistogram(p, data, label, height_resize, ub, junk) ==
  LET distinct == Cardinality({data[k] : k \in 1..Len(data)})
      nbins == Min(p.nbins_, distinct)
      min == IntMin(data)
      max == IntMax(data)
      p0 == [p EXCEPT !.nbins_ = nbins]
  IN  IF nbins = 1 /\ ub = "trap"
        THEN [threw |-> "SIGFPE", p |-> p0, off_end |-> FALSE, bars |-> <<>>]
      ELSE
        LET step == IF nbins = 1 THEN 1 ELSE IntDiv(max - min, nbins - 1)
            p1 == SetXlimits(p0, DblOf(min - IntDiv(step, 2), 1),
                                 DblOf(max + IntDiv(step, 2), 1))
            counts == BarCounts(p1, data, nbins, step)
            heights == IF nbins = 1 THEN [b \in 1..nbins |-> junk]
                       ELSE BarHeights(p1, counts, height_resize)
            p2 == [p1 EXCEPT !.metadata_ =
                     Append(@, [label |-> label, length |-> 0,
                                brush |-> GetBrush(p1.palette_, "Area").b])]
        IN  [threw |-> "",
             p |-> PlotBars(p2, HistBars(p2, heights, nbins)),
             off_end |-> CountsOffEnd(p1, data, nbins, step),
             bars |-> HistBars(p2, heights, nbins)]

----------------------------------------------------------------------------
(* GridPlot *)

\* an entry of plots_ that holds no sub-canvas
nullptr == [null |-> TRUE]

IsNull(sp) == "null" \in DOMAIN sp

RECURSIVE Accumulate(_)
Accumulate(v) == IF v = <<>> THEN 0 ELSE Head(v) + Accumulate(Tail(v))

\* the slices of the rows/cols constructor: div + 1 for the first rem ones
Slices(dim, n) == [i \in 1..n |-> (dim \div n) + (IF i - 1 < dim % n THEN 1 ELSE 0)]

\* __GridPlot::__GridPlot(grid_rows, grid_cols, width, height), for
\* grid_rows, grid_cols >= 1 and explicit sizes; the setter index starts at 0
GridCtor(grid_rows, grid_cols, width, height) ==
  [live |-> TRUE,
   grid_rows_ |-> Max(0, grid_rows), grid_cols_ |-> Max(0, grid_cols),
   nplots_ |-> Max(0, grid_rows) * Max(0, grid_cols),
   plots_ |-> [k \in 1..(Max(0, grid_rows) * Max(0, grid_cols)) |-> nullptr],
   subp_widths_ |-> Slices(width, grid_cols),
   subp_heights_ |-> Slices(height, grid_rows),
   idx_ |-> 0]

\* __GridPlot::__GridPlot(subplot_widths, subplot_heights, width, height).
\* When the sums do not match the size the constructor builds a temporary
\* grid and drops it: this object keeps the lists as given, an empty plots_
\* and an nplots_ that was never assigned (junk).
GridCtorLists(subplot_widths, subplot_heights, width, height, junk) ==
  LET ww == Accumulate(subplot_widths)
      hh == Accumulate(subplot_heights)
      grid_rows_ == Len(subplot_heights)
      grid_cols_ == Len(subplot_widths)
      fits == ~(ww # width \/ hh # height)
  IN  [live |-> TRUE, grid_rows_ |-> grid_rows_, grid_cols_ |-> grid_cols_,
       nplots_ |-> IF fits THEN grid_rows_ * grid_cols_ ELSE junk,
       plots_ |-> IF fits THEN [k \in 1..(grid_rows_ * grid_cols_) |-> nullptr]
                          ELSE <<>>,
       subp_widths_ |-> subplot_widths,
       subp_heights_ |-> subplot_heights,
       idx_ |-> 0]

\* the column scan of At: <<i, ii>> when the loop ends
RECURSIVE ScanCols(_, _, _, _)
ScanCols(g, col, i, ii) ==
  IF i < g.grid_cols_ /\ ~(ii + g.subp_widths_[i + 1] > col)
    THEN ScanCols(g, col, i + 1, ii + g.subp_widths_[i + 1])
    ELSE <<i, ii>>

\* the row scan of At, from the last grid row down to 0: <<j, jj>>
RECURSIVE ScanRows(_, _, _, _)
ScanRows(g, row, j, jj) ==
  IF j >= 0 /\ ~(jj + g.subp_heights_[j + 1] > row)
    THEN ScanRows(g, row, j - 1, jj + g.subp_heights_[j + 1])
    ELSE <<j, jj>>

\* a row scan that starts at grid row 0 instead of the last one
RECURSIVE ScanRowsUp(_, _, _, _)
ScanRowsUp(g, row, j, jj) ==
  IF j < g.grid_rows_ /\ ~(jj + g.subp_heights_[j + 1] > row)
    THEN ScanRowsUp(g, row, j + 1, jj + g.subp_heights_[j + 1])
    ELSE <<j, jj>>

GridLocateBottomUp(g, col, row) ==
  LET c == ScanCols(g, col, 0, 0)
      r == ScanRowsUp(g, row, 0, 0)
  IN  [slot |-> c[1] + r[1] * g.grid_cols_,
       grid_col |-> c[1], grid_row |-> r[1],
       col |-> col - c[2], row |-> row - r[2]]

\* where __GridPlot::At(col, row) goes: the entry of plots_ and the local
\* coordinates handed to it
GridLocate(g, col, row) ==
  LET c == ScanCols(g, col, 0, 0)
      r == ScanRows(g, row, g.grid_rows_ - 1, 0)
  IN  [slot |-> c[1] + r[1] * g.grid_cols_,
       grid_col |-> c[1], grid_row |-> r[1],
       col |-> col - c[2], row |-> row - r[2]]

\* whether At(col, row) indexes plots_ within its bounds
GridInRange(g, col, row) ==
  GridLocate(g, col, row).slot \in 0..(Len(g.plots_) - 1)

\* __GridPlot::At(col, row) const, for an entry within plots_
GridAt(g, p, col, row) ==
  LET at == GridLocate(g, col, row)
      sp == g.plots_[at.slot + 1]
  IN  IF IsNull(sp) THEN p.canvas_[row + col * p.height_ + 1]
                    ELSE At(sp, at.col, at.row)

\* At(col, row) = b on the grid: the store lands in the sub-canvas of the
\* entry, or in the parent's canvas_ when the entry is null
GridStore(g, p, col, row, b) ==
  LET at == GridLocate(g, col, row)
      sp == g.plots_[at.slot + 1]
  IN  IF IsNull(sp)
        THEN [g |-> g, p |-> [p EXCEPT !.canvas_ = Store(p, @, col, row, b)]]
        ELSE [g |-> [g EXCEPT !.plots_[at.slot + 1].canvas_ =
                                 Store(sp, @, at.col, at.row, b)],
              p |-> p]

\* __Plot::Serialize on a grid: the virtual At is __GridPlot::At
GridSerialize(g, p) ==
  Concat([k \in 1..p.height_ |->
            Concat([c \in 1..p.width_ |->
                      GridAt(g, p, c - 1, p.height_ - k).value]) \o <<LF>>])

\* __GridPlot::SetPlotAt(grid_row, grid_col, plot); outside plots_ the store
\* is undefined and the vector is left as it is
SetPlotAt(g, grid_row, grid_col, sp) ==
  LET k == grid_row * g.grid_cols_ + grid_col
  IN  IF k \in 0..(Len(g.plots_) - 1) THEN [g EXCEPT !.plots_[k + 1] = sp] ELSE g

\* RowMajorGridSetter::operator()(plot), the setter made by SetInRowMajor()
RowMajorSet(g, sp) ==
  IF g.idx_ < g.grid_rows_ * g.grid_cols_
    THEN [SetPlotAt(g, IntDiv(g.idx_, g.grid_cols_), g.idx_ % g.grid_cols_, sp)
            EXCEPT !.idx_ = @ + 1]
    ELSE g

----------------------------------------------------------------------------
(* Redraw *)

\* the first cell of canvas_, in the order of Redraw's loops (which is the
\* order of the vector), whose palette entry no Brush can be built from;
\* 0 when there is none
RedrawStop(p) ==
  LET bad == {k \in 1..Len(p.canvas_) :
                /\ ~IsGeneral(p.canvas_[k])
                /\ GetBrush(p.palette_, p.canvas_[k].name).threw # ""}
  IN  IF bad = {} THEN 0 ELSE CHOOSE k \in bad : \A j \in bad : k <= j

\* __Plot::Redraw: every cell that is not general becomes
\* palette_.GetBrush(its name)
Redraw(p) ==
  LET stop == RedrawStop(p)
  IN  [threw |-> IF stop = 0 THEN "" ELSE "InvalidBrushValue",
       p |-> [p EXCEPT !.canvas_ =
                [k \in 1..Len(p.canvas_) |->
                   IF IsGeneral(p.canvas_[k]) \/ (stop # 0 /\ k >= stop)
                     THEN p.canvas_[k]
                     ELSE GetBrush(p.palette_, p.canvas_[k].name).b]]]

----------------------------------------------------------------------------
(* Gamma *)

\* the size of recodedGamma_: one entry per value of a uint8_t level
kLevels == 256

\* __FixedGamma::Set: the index in gamma (from 0) of the character that
\* fill_n leaves at recodedGamma_[level].  Character i is copied
\* div + (rem > 0) times with rem counted down from kLevels % levels, so
\* its copies start at i*div + min(i, kLevels % levels).
BandStart(levels, i) ==
  i * (kLevels \div levels) + Min(i, kLevels % levels)

RecodedIndex(levels, level) ==
  CHOOSE i \in 0..(levels - 1) :
    BandStart(levels, i) <= level /\ level < BandStart(levels, i + 1)

\* recodedGamma_ after __FixedGamma::Set(str), str not empty
FixedGammaSet(str) ==
  [kind |-> "Fixed", gamma_ |-> SubSeq(str, 1, Min(Len(str), kLevels)),
   recodedGamma_ |-> [l \in 1..kLevels |-> str[RecodedIndex(Len(str), l - 1) + 1]]]

\* __FixedGamma::operator()(level): Brush("*", recodedGamma_[level])
FixedGammaAt(g, level) == BrushNamed("*", <<g.recodedGamma_[level + 1]>>)

\* __TextGamma(text), on the defaults of __VariableGamma: threshold 128,
\* zero brush " "
TextGammaOf(text) ==
  [kind |-> "Text", live |-> TRUE,
   text_ |-> IF Len(text) = 0 THEN <<SPACE>> ELSE text,
   use_count_ |-> 0, threshold_ |-> 128,
   zero_ |-> BrushNamed("*", <<SPACE>>).b]

\* how many of the first k levels are not below the threshold of g
Emitted(g, levels, k) ==
  Cardinality({m \in 1..k : levels[m] >= g.threshold_})

\* the Brush the k-th of a run of calls g(levels[1]), g(levels[2]), ...
\* returns: __TextGamma::operator() returns zero_ below the threshold and
\* text_[use_count_++ % text_.size()] otherwise, so the k-th call finds
\* use_count_ advanced by the earlier levels that were not below it
GammaBrush(g, levels, k) ==
  IF g.kind = "Fixed" THEN FixedGammaAt(g, levels[k])
  ELSE IF levels[k] < g.threshold_ THEN [threw |-> "", b |-> g.zero_]
  ELSE BrushOf(<<g.text_[((g.use_count_ + Emitted(g, levels, k - 1))
                            % Len(g.text_)) + 1]>>)

\* g after the run
GammaAfter(g, levels) ==
  IF g.kind = "Fixed" THEN g
  ELSE [g EXCEPT !.use_count_ = @ + Emitted(g, levels, Len(levels))]

----------------------------------------------------------------------------
(* Image *)

Image(w, h, img) == [width_ |-> w, height_ |-> h, img_ |-> img]

\* Image::At(x, y): img_[x + y * width_]
ImageAt(img, x, y) == img.img_[x + y * img.width_ + 1]

\* the sum of s[1..n]
RECURSIVE SumTo(_, _)
SumTo(s, n) == IF n = 0 THEN 0 ELSE s[n] + SumTo(s, n - 1)

\* the block averages of Image::Resize, new_width and new_height positive
\* and not above the image's: block j of a row is div_w + (j < rem_w)
\* pixels wide and starts where the blocks before it end.  The sums are
\* doubles of small integers, exact; the quotient's cast to int truncates.
ResizeBlocks(img, new_width, new_height) ==
  LET div_w == img.width_ \div new_width
      div_h == img.height_ \div new_height
      rem_w == img.width_ % new_width
      rem_h == img.height_ % new_height
      at(k) ==
        LET j == (k - 1) % new_width
            i == (k - 1) \div new_width
            block_j_len == div_w + (IF j < rem_w THEN 1 ELSE 0)
            block_i_len == div_h + (IF i < rem_h THEN 1 ELSE 0)
            block_j_offset == j * div_w + Min(j, rem_w)
            block_i_offset == i * div_h + Min(i, rem_h)
            n == block_i_len * block_j_len
            px == [m \in 1..n |->
                     ImageAt(img, block_j_offset + ((m - 1) % block_j_len),
                             block_i_offset + ((m - 1) \div block_j_len))]
        IN  SumTo(px, n) \div n
  IN  Image(new_width, new_height, [k \in 1..(new_width * new_height) |-> at(k)])

\* Image::Resize(new_width, new_height)
Resize(img, new_width, new_height) ==
  IF new_width > img.width_ \/ new_height > img.height_ THEN img
  ELSE ResizeBlocks(img, new_width, new_height)

\* DrawImage: the image it reads its pixels from
ImageFit(img, img_width, img_height) ==
  IF img.width_ > img_width \/ img.height_ > img_height
    THEN Resize(img, img_width, img_height) ELSE img

\* DrawImage: the levels handed to gamma, in the order of its loops (rows
\* from len_h - 1 down to 0, columns from 0 up)
ImageLevels(img, img_width, img_height) ==
  LET len_w == Min(img.width_, img_width)
      len_h == Min(img.height_, img_height)
      img_fit == ImageFit(img, img_width, img_height)
  IN  [k \in 1..(len_w * len_h) |->
         ImageAt(img_fit, (k - 1) % len_w, len_h - 1 - ((k - 1) \div len_w))]

\* DrawImage: the sub-canvas it fills, cell (i, j) from the call of gamma
\* made for it
ImageSubplot(img, g, img_width, img_height) ==
  LET len_w == Min(img.width_, img_width)
      len_h == Min(img.height_, img_height)
      levels == ImageLevels(img, img_width, img_height)
      sub == NewPlot(len_w, len_h)
  IN  [sub EXCEPT !.canvas_ =
         [x \in 1..(len_w * len_h) |->
            LET i == (x - 1) \div len_h
                j == (x - 1) % len_h
            IN  GammaBrush(g, levels, (len_h - 1 - j) * len_w + i + 1).b]]

\* __Plot::DrawImage(img, gamma, position, img_width, img_height), the
\* sizes positive.  gamma is passed by value: g is the callee's copy, and
\* the caller's object is not touched.
DrawImage(p, img, g, position, img_width, img_height) ==
  LET levels == ImageLevels(img, img_width, img_height)
      bad == {k \in 1..Len(levels) : GammaBrush(g, levels, k).threw # ""}
  IN  IF bad # {} THEN [threw |-> "InvalidBrushValue", p |-> p]
      ELSE [threw |-> "",
            p |-> Fuse(p, ImageSubplot(img, g, img_width, img_height),
                       position, TRUE, TRUE)]

----------------------------------------------------------------------------
(* BarPlot::PlotBars(xdata, ydata) *)

\* std::sort with std::less on doubles
SortedDbl(v) == SortSeq(v, DblLess)

\* std::adjacent_difference: the first element is copied, every later one
\* is the difference to its predecessor
AdjacentDifference(v) ==
  [k \in 1..Len(v) |-> IF k = 1 THEN v[1] ELSE DblSub(v[k], v[k - 1])]

\* erase(find_last_not_of('0') + 1): the string without its trailing '0's
RECURSIVE EraseZeros(_)
EraseZeros(s) ==
  IF s # <<>> /\ s[Len(s)] = 48 THEN EraseZeros(SubSeq(s, 1, Len(s) - 1)) ELSE s

\* FormatValue<double> at BarValuePrecision 0 for value >= 0: the digits of
\* the value rounded to an integer (ties to even) with the trailing zeros
\* erased.  The result is empty for a value that rounds to 0, and back() on
\* it is then undefined; no bar drawn here is named by such a value.
FormatDouble(value) ==
  LET q == value[1] \div value[2]
      r == value[1] % value[2]
      n == IF 2 * r > value[2] \/ (2 * r = value[2] /\ q % 2 = 1) THEN q + 1 ELSE q
  IN  EraseZeros(DigitsOf(n))

\* PlotBars(xdata, ydata): min_diff, the least element of the adjacent
\* differences of the sorted xdata
BarsMinDiff(xdata) == MinElement(AdjacentDifference(SortedDbl(xdata)))

\* PlotBars(xdata, ydata): the canvas after its SetXlimits and SetYlimits
BarsLimits(p, xdata, ydata) ==
  LET min_diff == BarsMinDiff(xdata)
      q == SetXlimits(p, DblSub(MinElement(xdata), min_diff),
                         DblAdd(MaxElement(xdata), min_diff))
  IN  SetYlimits(q, DblMin(DblOf(0, 1), MinElement(ydata)),
                    DblMul(MaxElement(ydata), DblOf(105, 100)))

\* PlotBars(xdata, ydata): bar_width = min_diff / xstep, cast to int
BarsWidth(p, xdata, ydata) ==
  LET q == BarsLimits(p, xdata, ydata)
      xstep == DblDiv(DblSub(q.xlim_right_, q.xlim_left_), DblOf(q.width_, 1))
  IN  DblInt(DblDiv(BarsMinDiff(xdata), xstep))

\* PlotBars(xdata, ydata): the bars it builds, xdata and ydata not empty
BarsOf(p, xdata, ydata, b) ==
  LET q == BarsLimits(p, xdata, ydata)
      xstep == DblDiv(DblSub(q.xlim_right_, q.xlim_left_), DblOf(q.width_, 1))
      ystep == DblDiv(DblSub(q.ylim_top_, q.ylim_bottom_), DblOf(q.height_, 1))
      bar_width == BarsWidth(p, xdata, ydata)
  IN  [i \in 1..Min(Len(xdata), Len(ydata)) |->
         [col_ |-> DblInt(DblSub(DblDiv(DblSub(xdata[i], q.xlim_left_), xstep),
                                 DblDiv(DblOf(bar_width, 1), DblOf(2, 1)))),
          empty_ |-> FALSE, width_ |-> bar_width,
          height_ |-> DblInt(DblDiv(DblSub(ydata[i], q.ylim_bottom_), ystep)),
          name_ |-> FormatDouble(ydata[i]), brush_ |-> b]]

\* __BarPlot::PlotBars(xdata, ydata, label, brush)
PlotBarsXY(p, xdata, ydata, label, b) ==
  LET q == BarsLimits(p, xdata, ydata)
  IN  PlotBars([q EXCEPT !.metadata_ = Append(@, [label |-> label, brush |-> b])],
               BarsOf(p, xdata, ydata, b))

----------------------------------------------------------------------------
(* DrawLine *)

\* to_col and to_row of DrawLine: (x - xlim_left_) / xstep cast to int
ToCol(p, x) ==
  DblInt(DblDiv(DblSub(x, p.xlim_left_),
                DblDiv(DblSub(p.xlim_right_, p.xlim_left_), DblOf(p.width_, 1))))

ToRow(p, y) ==
  DblInt(DblDiv(DblSub(y, p.ylim_bottom_),
                DblDiv(DblSub(p.ylim_top_, p.ylim_bottom_), DblOf(p.height_, 1))))

\* x_current after k rounds of x_current += x_adv
RECURSIVE Advanced(_, _, _)
Advanced(begin, adv, k) ==
  IF k = 0 THEN begin ELSE DblAdd(Advanced(begin, adv, k - 1), adv)

IntAbs(a) == IF a < 0 THEN 0 - a ELSE a

\* whether DrawLine takes its first branch, the loop over rows
LineByRows(p, x_begin, y_begin, x_end, y_end) ==
  IntAbs(ToCol(p, x_end) - ToCol(p, x_begin))
    < IntAbs(ToRow(p, y_end) - ToRow(p, y_begin))

\* the assignments of __Plot::DrawLine(x_begin, y_begin, x_end, y_end)
DrawLineWrites(p, x_begin, y_begin, x_end, y_end) ==
  LET b == GetBrush(p.palette_, "Main").b
      col_beg == ToCol(p, x_begin)
      row_beg == ToRow(p, y_begin)
      col_end == ToCol(p, x_end)
      row_end == ToRow(p, y_end)
      n == Max(IntAbs(col_end - col_beg), IntAbs(row_end - row_beg)) + 1
  IN  IF LineByRows(p, x_begin, y_begin, x_end, y_end) THEN
        LET x_adv == DblDiv(DblSub(x_end, x_begin), DblOf(n, 1))
            j_adv == IF row_beg < row_end THEN 1 ELSE 0 - 1
        IN  [k \in 1..n |->
               [col |-> ToCol(p, Advanced(x_begin, x_adv, k - 1)),
                row |-> row_beg + (k - 1) * j_adv, b |-> b]]
      ELSE
        LET y_adv == DblDiv(DblSub(y_end, y_begin), DblOf(n, 1))
            i_adv == IF col_beg < col_end THEN 1 ELSE 0 - 1
        IN  [k \in 1..n |->
               [col |-> col_beg + (k - 1) * i_adv,
                row |-> ToRow(p, Advanced(y_begin, y_adv, k - 1)), b |-> b]]

\* __Plot::DrawLine(x_begin, y_begin, x_end, y_end)
DrawLine(p, x_begin, y_begin, x_end, y_end) ==
  [p EXCEPT !.canvas_ =
     StoreAll(p, p.canvas_, DrawLineWrites(p, x_begin, y_begin, x_end, y_end))]

----------------------------------------------------------------------------
(* Image: the bitmap payload *)

\* *(current + k): byte k of the payload, or whatever lies behind it
PayloadByte(payload, k, junk) ==
  IF k < Len(payload) THEN payload[k + 1] ELSE junk

\* ParsePayload_24: how far `current` is from the payload's first byte when
\* row i begins; each row advances it by 3 * width_ and then by skip
RowStart24(width, i) == i * (3 * width + (4 - ((width * 3) % 4)))

\* ParsePayload_1: the same for the 1-bit format; each row advances
\* `current` by full_bytes and then by skip = residual_bits / 8
RowStart1(width, i) ==
  LET full_bytes == width \div 8
      residual_bits == width - full_bytes * 8
  IN  i * (full_bytes + (residual_bits \div 8))

\* Image::ParsePayload_24: img_, the mean of the three bytes of each pixel
ParsePayload_24(width, height, payload, junk) ==
  [idx \in 1..(width * height) |->
     LET at == RowStart24(width, (idx - 1) \div width) + 3 * ((idx - 1) % width)
     IN  (PayloadByte(payload, at, junk) + PayloadByte(payload, at + 1, junk)
            + PayloadByte(payload, at + 2, junk)) \div 3]

\* Image::ParsePayload_1: img_, 255 for a set bit and 0 for a clear one,
\* the bits of a byte taken from 0x80 down
ParsePayload_1(width, height, payload, junk) ==
  [idx \in 1..(width * height) |->
     LET j == (idx - 1) % width
         temp == PayloadByte(payload, RowStart1(width, (idx - 1) \div width) + (j \div 8),
                             junk)
     IN  IF (temp \div (2 ^ (7 - (j % 8)))) % 2 = 1 THEN 255 ELSE 0]

\* Image::ParsePayload, for the 1-bit and 24-bit formats and the formats it
\* rejects (the 32-bit format has no row padding and is left out)
ParsePayload(bits_per_pixel, width, height, payload, junk) ==
  IF bits_per_pixel = 1
    THEN [threw |-> "", img |-> Image(width, height,
                                      ParsePayload_1(width, height, payload, junk))]
  ELSE IF bits_per_pixel = 24
    THEN [threw |-> "", img |-> Image(width, height,
                                      ParsePayload_24(width, height, payload, junk))]
  ELSE [threw |-> "BMPFormatNotSupported", img |-> Image(width, height, <<>>)]

----------------------------------------------------------------------------
(* Inputs *)

\* what value_ may hold after the store through the terminator of an empty
\* string: the length is not touched (observed), or the byte is taken in
StoreOutcomes == {<<>>, <<SPACE>>}

Dot == [name |-> "*", value |-> <<46>>]
LetterA == [name |-> "*", value |-> <<97>>]
SpaceGlyph == [name |-> "*", value |-> <<32>>]
BlankHash == [name |-> "Blank", value |-> <<35>>]
TwoByte == [name |-> "*", value |-> <<195, 169>>]
TwoByteLF == [name |-> "*", value |-> <<1, 10>>]
MainBrush == [name |-> "Main", value |-> <<95>>]

\* cell contents a caller can store through At(col, row) = brush
CellBrushes == <<BrushDefault, LetterA, BlankHash, SpaceGlyph>>

\* a w x h canvas whose cells run through bs, starting at its s-th brush
Patterned(w, h, bs, s) ==
  [NewPlot(w, h) EXCEPT
     !.canvas_ = [k \in 1..(w * h) |-> bs[((k - 1 + s) % Len(bs)) + 1]]]

\* a blank w x h canvas with the one cell (c, r) set to b
Marked(w, h, c, r, b) ==
  LET p == NewPlot(w, h)
  IN  [p EXCEPT !.canvas_ = Store(p, p.canvas_, c, r, b)]

Positions ==
  {Position(Offset(0, 0), a) : a \in Anchors}
    \cup {Position(Offset(c, r), "SouthWest") : c \in Offs, r \in Offs}

Alphabet == <<97, 98, 99, 100, 101, 102, 103, 104>>
Letters(n) == SubSeq(Alphabet, 1, n)
BOX1 == <<66, 79, 88, 49>>

\* texts: plain ones of every length, and ones holding a control byte
Texts ==
  {Letters(n) : n \in 0..MaxLen}
    \cup {Letters(n) \o <<1>> : n \in 0..(MaxLen - 1)}
    \cup {Letters(n) \o <<TAB>> : n \in 0..(MaxLen - 1)}
    \cup {<<1, 97>>, BOX1}

\* arguments of SetValue and of the Brush constructors
Values ==
  {<<>>, <<97>>, <<97, 98>>, <<TAB>>, <<LF>>, <<CR>>, <<1>>, <<127>>,
   <<195, 169>>, <<1, 10>>, <<9, 97>>, <<195, 169, 97>>}

\* doubles a caller passes as limits and coordinates
Half == DblOf(1, 2)
LimitValues == {DblOf(0 - 1, 1), DblOf(0, 1), DblOf(1, 1), DblOf(2, 1)}
Coordinates == LimitValues \cup {Half, BelowOne, AboveOne}

\* data series: empty, one value, all values equal, two and three values,
\* and one that starts at 0
DataVectors ==
  {<<>>, <<Half>>, <<DblOf(2, 1), DblOf(2, 1)>>, <<Half, DblOf(2, 1)>>,
   <<DblOf(2, 1), Half, DblOf(1, 1)>>, <<DblOf(0, 1), Half>>}

Labels == {<<>>, <<97>>, <<97, 98, 99>>}

\* integer series handed to BarGrouper::Add, one to three groups long
Series == {<<1>>, <<2, 1>>, <<1, 3>>, <<3, 1, 2>>}

\* what a read past the end of a vector<double> may return
JunkDoubles == {DblOf(0, 1), DblOf(7, 1)}

\* samples for PlotHistogram: the example of three distinct values, two
\* values, one value, and values that are not evenly spaced
Samples == {<<1, 1, 1, 2, 2, 3>>, <<1, 2>>, <<2, 2>>, <<1, 2, 4>>}

\* what an int computed from a trapped or meaningless value may hold
JunkInts == {0, 0 - 1}

\* explicit lists of column widths and row heights for a GridPlot
SliceLists == {<<1>>, <<2>>, <<1, 1>>, <<2, 1>>}

\* the sub-canvas handed to a grid for entry k of plots_, a w x h slice: a
\* pattern of the slice's size that starts at the k-th cell brush (1 x 1 for
\* a slice without cells, which no cell resolves to)
SubPlot(w, h, k) == Patterned(Max(w, 1), Max(h, 1), CellBrushes, k)

\* the cells of the grid of p
Cells(p) == (0..(p.width_ - 1)) \X (0..(p.height_ - 1))

\* the one series every legend entry is plotted from
LegendSeries == <<Half, DblOf(2, 1)>>

\* canvases a legend of MaxCalls entries fits on at every anchor
LegendSizes == {<<MaxLen + 7, MaxCalls + 3>>, <<MaxLen + 8, MaxCalls + 5>>}

\* every anchor with every offset
AnchoredPositions ==
  {Position(Offset(c, r), a) : c \in Offs, r \in Offs, a \in Anchors}

\* a cell drawn with a style the default palette has no entry for
Mine == [name |-> "Mine", value |-> <<120>>]

\* cells of the canvases Redraw runs on: blank, literal, a palette style
RedrawBrushes == <<BrushDefault, LetterA, MainBrush, Mine>>

\* the string of the default FixedGamma: "  ..oo00#@"
DefaultGamma == <<32, 32, 46, 46, 111, 111, 48, 48, 35, 64>>

\* strings a FixedGamma is built from
GammaStrings == {Letters(n) : n \in 1..MaxLen} \cup {Alphabet, DefaultGamma}

\* a w x h image whose levels step through the range from s on
GreyImage(w, h, s) == Image(w, h, [k \in 1..(w * h) |-> (s + 60 * (k - 1)) % kLevels])

\* images up to one pixel larger than the largest box
Images == {GreyImage(w, h, s) : w \in 1..(MaxDim + 1), h \in 1..(MaxDim + 1), s \in {0, 130}}

\* the rows 0, 1, ..., n-1 that askibars numbers a single column with
RowNumbers(n) == [k \in 1..n |-> DblOf(k - 1, 1)]

\* x series with two distinct values or more: row numbers, series that
\* start above their gap, at it and below it, one unsorted, one negative
XSeries ==
  {RowNumbers(n) : n \in 2..MaxLen}
    \cup {<<DblOf(1, 1), DblOf(2, 1)>>, <<DblOf(2, 1), DblOf(3, 1)>>,
          <<DblOf(1, 1), DblOf(3, 1)>>, <<DblOf(3, 1), DblOf(1, 1), DblOf(2, 1)>>,
          <<DblOf(0 - 1, 1), DblOf(1, 1)>>}

\* bar values
YSeries ==
  {<<DblOf(1, 1), DblOf(2, 1), DblOf(3, 1)>>, <<DblOf(2, 1), DblOf(2, 1), DblOf(1, 1)>>,
   <<DblOf(3, 1), DblOf(1, 1), DblOf(1, 1)>>}

\* canvases at least one column wider than the longest x series
BarSizes == {<<MaxLen + 1, MaxDim>>, <<MaxLen + 3, MaxDim + 1>>}

\* end points of lines, all inside the default limits [0, 1)
LineCoordinates == {DblOf(0, 1), DblOf(1, 4), Half, BelowOne}

\* the stride of a bitmap row: its bytes rounded up to a multiple of 4
Stride(bits_per_pixel, width) ==
  (((IF bits_per_pixel = 1 THEN (width + 7) \div 8 ELSE 3 * width) + 3) \div 4) * 4

\* the payload of a width x height bitmap: rows of Stride bytes
Payload(bits_per_pixel, width, height, seed) ==
  [k \in 1..(height * Stride(bits_per_pixel, width)) |->
     (37 * k + 11 * seed) % kLevels]

\* image widths up to one full byte of bits and one bit more
ImageWidths == 1..(4 * MaxDim + 1)

----------------------------------------------------------------------------
(* Calls *)

Recorded(e) ==
  LET h == Append(hist, e)
  IN  IF Len(h) > 2 THEN Tail(h) ELSE h

Call(op, arg, threw, pre) == [op |-> op, arg |-> arg, threw |-> threw, pre |-> pre]

Last == hist[Len(hist)]

FillCall ==
  \E b \in {Dot, BrushDefault, TwoByte, TwoByteLF, MainBrush} :
    /\ plot' = Fill(plot, b)
    /\ hist' = Recorded(Call("Fill", [brush |-> b], "", plot))
    /\ UNCHANGED <<other, brush, build, grouper, grid, gamma>>

ClearCall ==
  LET r == Clear(plot)
  IN  /\ plot' = r.p
      /\ hist' = Recorded(Call("Clear", <<>>, r.threw, plot))
      /\ UNCHANGED <<other, brush, build, grouper, grid, gamma>>

SerializeCall ==
  /\ hist' = Recorded(Call("Serialize", [out |-> Serialize(plot)], "", plot))
  /\ UNCHANGED <<plot, other, brush, build, grouper, grid, gamma>>

SetBrushCall ==
  \E name \in {"Blank", "Main", "Mine"}, value \in {<<46>>, <<35>>, <<>>} :
    LET r == SetBrush(plot, name, value)
    IN  /\ plot' = r.p
        /\ hist' = Recorded(Call("SetBrush", [name |-> name, value |-> value],
                                 r.threw, plot))
        /\ UNCHANGED <<other, brush, build, grouper, grid, gamma>>

SetTitleCall ==
  \E title \in {<<>>, <<84>>} :
    /\ plot' = SetTitle(plot, title)
    /\ hist' = Recorded(Call("SetTitle", [title |-> title], "", plot))
    /\ UNCHANGED <<other, brush, build, grouper, grid, gamma>>

SetXlimitsCall ==
  \E l \in LimitValues, r \in LimitValues :
    /\ plot' = SetXlimits(plot, l, r)
    /\ hist' = Recorded(Call("SetXlimits", [left |-> l, right |-> r], "", plot))
    /\ UNCHANGED <<other, brush, build, grouper, grid, gamma>>

SetYlimitsCall ==
  \E b \in LimitValues, t \in LimitValues :
    /\ plot' = SetYlimits(plot, b, t)
    /\ hist' = Recorded(Call("SetYlimits", [bottom |-> b, top |-> t], "", plot))
    /\ UNCHANGED <<other, brush, build, grouper, grid, gamma>>

AutoLimitCall ==
  \E borders \in {{}, {"Left", "Right"}, Borders} :
    /\ plot' = AutoLimit(plot, borders)
    /\ hist' = Recorded(Call("AutoLimit", [borders |-> borders], "", plot))
    /\ UNCHANGED <<other, brush, build, grouper, grid, gamma>>

ShiftCall ==
  \E c \in Offs, r \in Offs :
    /\ plot' = Shift(plot, Offset(c, r))
    /\ hist' = Recorded(Call("Shift", [offset |-> Offset(c, r)], "", plot))
    /\ UNCHANGED <<other, brush, build, grouper, grid, gamma>>

MoveCall ==
  \E c \in Offs, r \in Offs :
    LET m == Move(plot, Offset(c, r))
    IN  /\ plot' = m.p
        /\ hist' = Recorded(Call("Move", [offset |-> Offset(c, r)], m.threw, plot))
        /\ UNCHANGED <<other, brush, build, grouper, grid, gamma>>

FuseCall ==
  \E position \in Positions, keep_blanks \in BOOLEAN, adjust \in BOOLEAN :
    /\ plot' = Fuse(plot, other, position, keep_blanks, adjust)
    /\ hist' = Recorded(Call("Fuse",
                  [position |-> position, keep_blanks |-> keep_blanks,
                   adjust |-> adjust,
                   off_grid |-> OffGrid(plot, FuseWrites(plot, other, position,
                                                         keep_blanks, adjust))],
                  "", plot))
    /\ UNCHANGED <<other, brush, build, grouper, grid, gamma>>

AdjustCall ==
  \E position \in Positions, box_width \in Dims, box_height \in Dims,
     drawing_upwards \in BOOLEAN :
    /\ hist' = Recorded(Call("AdjustAbsolutePosition",
                  [position |-> position, box_width |-> box_width,
                   box_height |-> box_height, drawing_upwards |-> drawing_upwards,
                   result |-> AdjustAbsolutePosition(plot, position, box_width,
                                                     box_height, drawing_upwards)],
                  "", plot))
    /\ UNCHANGED <<plot, other, brush, build, grouper, grid, gamma>>

TextCall(op, text, position, adjust, r, ws) ==
  /\ plot' = r.p
  /\ hist' = Recorded(Call(op, [text |-> text, position |-> position,
                                adjust |-> adjust, off_grid |-> OffGrid(plot, ws)],
                           r.threw, plot))
  /\ UNCHANGED <<other, brush, build, grouper, grid, gamma>>

DrawTextCall ==
  \E text \in Texts, position \in Positions, adjust \in BOOLEAN :
    TextCall("DrawText", text, position, adjust,
             DrawText(plot, text, position, adjust),
             DrawTextWrites(plot, text, position, adjust).ws)

DrawTextCenteredCall ==
  \E text \in Texts, position \in Positions, adjust \in BOOLEAN :
    TextCall("DrawTextCentered", text, position, adjust,
             DrawTextCentered(plot, text, position, adjust),
             DrawTextWrites(plot, text,
               PositionMinus(position, Offset(Len(text) \div 2, 0)), adjust).ws)

DrawTextVerticalCall ==
  \E text \in Texts, position \in Positions, adjust \in BOOLEAN :
    TextCall("DrawTextVertical", text, position, adjust,
             DrawTextVertical(plot, text, position, adjust),
             DrawTextVerticalWrites(plot, text, position, adjust).ws)

DrawTextVerticalCenteredCall ==
  \E text \in Texts, position \in Positions, adjust \in BOOLEAN :
    TextCall("DrawTextVerticalCentered", text, position, adjust,
             DrawTextVerticalCentered(plot, text, position, adjust),
             DrawTextVerticalWrites(plot, text,
               PositionPlus(position, Offset(0, Len(text) \div 2)), adjust).ws)

\* Brush(value): a new Brush object, when the constructor returns
BrushCall ==
  \E value \in Values :
    LET r == BrushOf(value)
    IN  /\ brush' = IF r.threw = "" THEN [live |-> TRUE, name |-> r.b.name,
                                          value |-> r.b.value]
                                    ELSE brush
        /\ hist' = Recorded(Call("Brush", [value |-> value], r.threw,
                                 [live |-> FALSE, name |-> "*", value |-> <<>>]))
        /\ UNCHANGED <<plot, other, build, grouper, grid, gamma>>

\* SetValue on the Brush object at hand
SetValueCall ==
  \E value \in Values :
    LET r == SetValue(brush.value, value)
    IN  /\ brush.live
        /\ brush' = [brush EXCEPT !.value = r.value_]
        /\ hist' = Recorded(Call("SetValue", [value |-> value], r.threw, brush))
        /\ UNCHANGED <<plot, other, build, grouper, grid, gamma>>

\* Plot(width, height): the Plot object, when the constructor returns
PlotCall ==
  \E width \in (0 - 1)..MaxDim, height \in (0 - 1)..MaxDim,
     ws_col \in WinSizes, ws_row \in WinSizes,
     junk_w \in Indeterminate, junk_h \in Indeterminate :
    LET r == PlotCtor(width, height, [ws_col |-> ws_col, ws_row |-> ws_row],
                      [width_ |-> junk_w, height_ |-> junk_h])
    IN  /\ plot' = IF r.threw = "" THEN r.p ELSE plot
        /\ hist' = Recorded(Call("Plot",
                      [width |-> width, height |-> height,
                       ws_col |-> ws_col, ws_row |-> ws_row],
                      r.threw, plot))
        /\ UNCHANGED <<other, brush, build, grouper, grid, gamma>>

\* a call that cannot throw and touches only the canvas object
PlotCall2(op, arg, p) ==
  /\ plot' = p
  /\ hist' = Recorded(Call(op, arg, "", plot))
  /\ UNCHANGED <<other, brush, build, grouper, grid, gamma>>

SetXlimLeftCall ==
  \E v \in LimitValues :
    PlotCall2("SetXlimLeft", [value |-> v], SetXlimLeft(plot, v))

SetXlimRightCall ==
  \E v \in LimitValues :
    PlotCall2("SetXlimRight", [value |-> v], SetXlimRight(plot, v))

SetYlimBottomCall ==
  \E v \in LimitValues :
    PlotCall2("SetYlimBottom", [value |-> v], SetYlimBottom(plot, v))

SetYlimTopCall ==
  \E v \in LimitValues :
    PlotCall2("SetYlimTop", [value |-> v], SetYlimTop(plot, v))

AutoLimitAnyCall ==
  \E borders \in SUBSET Borders :
    PlotCall2("AutoLimit", [borders |-> borders], AutoLimit(plot, borders))

SetAutoLimitsCall ==
  \E x \in DataVectors, y \in DataVectors :
    PlotCall2("SetAutoLimits", [x |-> x, y |-> y], SetAutoLimits(plot, x, y))

DrawPointCall ==
  \E x \in Coordinates, y \in Coordinates :
    PlotCall2("DrawPoint",
              [x |-> x, y |-> y,
               off_grid |-> OffGrid(plot, DrawPointWrites(plot, x, y))],
              DrawPoint(plot, x, y))

DrawPointsCall ==
  \E x \in DataVectors, y \in DataVectors, how_many \in {1, NoLimit} :
    PlotCall2("DrawPoints", [x |-> x, y |-> y, how_many |-> how_many],
              DrawPoints(plot, x, y, how_many))

PlotDataCall ==
  \E x \in DataVectors, y \in DataVectors, label \in Labels,
     how_many \in {1, NoLimit} :
    PlotCall2("PlotData",
              [x |-> x, y |-> y, label |-> label, how_many |-> how_many],
              PlotData(plot, x, y, label, how_many))

\* a call on the grouper; its base plot is the canvas
GrouperCall(op, arg, g, p) ==
  /\ grouper' = g
  /\ plot' = p
  /\ hist' = Recorded(Call(op, arg, "", plot))
  /\ UNCHANGED <<other, brush, build, grid, gamma>>

AddCall ==
  \E ydata \in Series, label \in Labels, b \in {Dot, LetterA},
     junk \in JunkDoubles :
    LET r == Add(grouper, plot, ydata, label, b, junk)
    IN  GrouperCall("Add",
                    [ydata |-> ydata, label |-> label, accepted |-> r.accepted,
                     past_end |-> r.past_end, grouper |-> grouper],
                    r.g, r.p)

AddNextCall ==
  \E ydata \in Series, label \in Labels, junk \in JunkDoubles :
    LET r == AddNext(grouper, plot, ydata, label, junk)
    IN  GrouperCall("Add",
                    [ydata |-> ydata, label |-> label, accepted |-> r.accepted,
                     past_end |-> r.past_end, grouper |-> grouper],
                    r.g, r.p)

CommitCall ==
  \E height_resize \in {DblOf(8, 10), DblOf(1, 1)}, junk \in JunkDoubles :
    GrouperCall("Commit",
                [height_resize |-> height_resize,
                 past_end |-> CommitPastEnd(grouper), grouper |-> grouper,
                 off_grid |-> OffGrid(plot,
                    DrawBarsWrites(plot,
                      CommitBars(grouper, plot, height_resize, junk)))],
                grouper, Commit(grouper, plot, height_resize, junk))

PlotHistogramCall ==
  \E data \in Samples, label \in Labels,
     height_resize \in {DblOf(8, 10), DblOf(2, 1)},
     ub \in {"trap", "value"}, junk \in JunkInts :
    LET r == PlotHistogram(plot, data, label, height_resize, ub, junk)
    IN  /\ plot' = r.p
        /\ hist' = Recorded(Call("PlotHistogram",
                                 [data |-> data, label |-> label,
                                  height_resize |-> height_resize,
                                  off_end |-> r.off_end,
                                  off_grid |-> OffGrid(r.p,
                                                 DrawBarsWrites(r.p, r.bars))],
                                 r.threw, plot))
        /\ UNCHANGED <<other, brush, build, grouper, grid, gamma>>

\* a call on the grid; its parent cells are the canvas
GridCall(op, arg, g, p) ==
  /\ grid' = g
  /\ plot' = p
  /\ hist' = Recorded(Call(op, arg, "", plot))
  /\ UNCHANGED <<other, brush, build, grouper, gamma>>

GridCtorCall ==
  \E grid_rows \in Dims, grid_cols \in Dims, wh \in Sizes :
    GridCall("GridPlot",
             [grid_rows |-> grid_rows, grid_cols |-> grid_cols,
              width |-> wh[1], height |-> wh[2]],
             GridCtor(grid_rows, grid_cols, wh[1], wh[2]),
             NewPlot(wh[1], wh[2]))

GridCtorListsCall ==
  \E subplot_widths \in SliceLists, subplot_heights \in SliceLists,
     wh \in Sizes, junk \in JunkInts :
    GridCall("GridPlotLists",
             [subplot_widths |-> subplot_widths,
              subplot_heights |-> subplot_heights,
              width |-> wh[1], height |-> wh[2]],
             GridCtorLists(subplot_widths, subplot_heights, wh[1], wh[2], junk),
             NewPlot(wh[1], wh[2]))

RowMajorSetCall ==
  LET grid_col == grid.idx_ % grid.grid_cols_
      grid_row == IntDiv(grid.idx_, grid.grid_cols_) % grid.grid_rows_
      sp == SubPlot(grid.subp_widths_[grid_col + 1],
                    grid.subp_heights_[grid_row + 1], grid.idx_)
  IN  GridCall("RowMajorSet", [plot |-> sp, idx_ |-> grid.idx_],
               RowMajorSet(grid, sp), plot)

SetPlotAtCall ==
  \E grid_row \in 0..(grid.grid_rows_ - 1), grid_col \in 0..(grid.grid_cols_ - 1) :
    LET sp == SubPlot(grid.subp_widths_[grid_col + 1],
                      grid.subp_heights_[grid_row + 1],
                      grid_row * grid.grid_cols_ + grid_col)
    IN  GridCall("SetPlotAt",
                 [grid_row |-> grid_row, grid_col |-> grid_col, plot |-> sp],
                 SetPlotAt(grid, grid_row, grid_col, sp), plot)

GridStoreCall ==
  \E cr \in Cells(plot) :
    /\ GridInRange(grid, cr[1], cr[2])
    /\ LET r == GridStore(grid, plot, cr[1], cr[2], Dot)
       IN  GridCall("At", [col |-> cr[1], row |-> cr[2]], r.g, r.p)

\* Serialize on the grid.  When At indexes plots_ outside its bounds the
\* read is undefined and the call is taken not to return.
GridSerializeCall ==
  LET ok == \A cr \in Cells(plot) : GridInRange(grid, cr[1], cr[2])
  IN  /\ hist' = Recorded(Call("GridSerialize",
                   [result |-> IF ok THEN GridSerialize(grid, plot) ELSE <<>>],
                   IF ok THEN "" ELSE "SIGSEGV", plot))
      /\ UNCHANGED <<plot, grid, other, brush, build, grouper, gamma>>

\* GetAbsolutePosition, and the same call on the position it returned
GetAbsolutePositionCall ==
  \E position \in AnchoredPositions :
    LET result == GetAbsolutePosition(plot, position)
    IN  /\ hist' = Recorded(Call("GetAbsolutePosition",
                     [position |-> position, result |-> result,
                      again |-> GetAbsolutePosition(plot, result)], "", plot))
        /\ UNCHANGED <<plot, other, brush, build, grouper, grid, gamma>>

\* PlotData of one labelled series: one more entry of metadata_
PlotSeriesCall ==
  \E label \in Labels :
    PlotCall2("PlotData",
              [x |-> LegendSeries, y |-> LegendSeries, label |-> label,
               how_many |-> NoLimit],
              PlotData(plot, LegendSeries, LegendSeries, label, NoLimit))

DrawLegendCall ==
  \E position \in Positions :
    LET r == DrawLegend(plot, position)
        some == Len(plot.metadata_) > 0
        box == IF some THEN LegendBox(plot, position)
                       ELSE [pos_col |-> 0, pos_row |-> 0,
                             box_width |-> 0, box_height |-> 0]
    IN  /\ plot' = r.p
        /\ hist' = Recorded(Call("DrawLegend",
                     [position |-> position, box |-> box,
                      off_grid |-> some /\ OffGrid(plot, LegendBorderWrites(box))],
                     r.threw, plot))
        /\ UNCHANGED <<other, brush, build, grouper, grid, gamma>>

\* Redraw, and the grid a second Redraw right after it gives
RedrawCall ==
  LET r == Redraw(plot)
  IN  /\ plot' = r.p
      /\ hist' = Recorded(Call("Redraw", [again |-> Redraw(r.p).p], r.threw, plot))
      /\ UNCHANGED <<other, brush, build, grouper, grid, gamma>>

\* DrawImage with a FixedGamma
DrawImageCall ==
  \E img \in Images, str \in {Alphabet, DefaultGamma},
     position \in {Position(Offset(0, 0), "SouthWest"),
                   Position(Offset(0, 0), "Center")},
     img_width \in Dims, img_height \in Dims :
    LET g == FixedGammaSet(str)
        r == DrawImage(plot, img, g, position, img_width, img_height)
    IN  /\ plot' = r.p
        /\ hist' = Recorded(Call("DrawImage",
                     [img |-> img, g |-> g, position |-> position,
                      img_width |-> img_width, img_height |-> img_height,
                      subplot |-> ImageSubplot(img, g, img_width, img_height)],
                     r.threw, plot))
        /\ UNCHANGED <<other, brush, build, grouper, grid, gamma>>

\* gamma(level) on the caller's TextGamma object
TextGammaCall ==
  \E level \in {0, 127, 128, 255} :
    /\ gamma' = GammaAfter(gamma, <<level>>)
    /\ hist' = Recorded(Call("TextGamma",
                 [level |-> level, b |-> GammaBrush(gamma, <<level>>, 1).b],
                 GammaBrush(gamma, <<level>>, 1).threw, plot))
    /\ UNCHANGED <<plot, other, brush, build, grouper, grid>>

\* DrawImage handed the caller's TextGamma object.  The parameter is a
\* copy: `copy` is what the copy holds when DrawImage returns, and the
\* caller's object stays as it was.
DrawImageTextCall ==
  \E img \in Images, img_width \in Dims, img_height \in Dims :
    LET position == Position(Offset(0, 0), "SouthWest")
        levels == ImageLevels(img, img_width, img_height)
        r == DrawImage(plot, img, gamma, position, img_width, img_height)
    IN  /\ plot' = r.p
        /\ hist' = Recorded(Call("DrawImageText",
                     [img |-> img, g |-> gamma, levels |-> levels,
                      brushes |-> [k \in 1..Len(levels) |->
                                     GammaBrush(gamma, levels, k).b],
                      copy |-> GammaAfter(gamma, levels)],
                     r.threw, plot))
        /\ UNCHANGED <<other, brush, build, grouper, grid, gamma>>

\* PlotBars(xdata, ydata, "", Brush("Area", DefaultBrushArea))
PlotBarsXYCall ==
  \E xdata \in XSeries, ydata \in YSeries :
    LET b == BrushNamed("Area", DefaultBrushArea).b
        ws == DrawBarsWrites(BarsLimits(plot, xdata, ydata), BarsOf(plot, xdata, ydata, b))
    IN  PlotCall2("PlotBars",
                  [xdata |-> xdata, ydata |-> ydata,
                   min_diff |-> BarsMinDiff(xdata),
                   bar_width |-> BarsWidth(plot, xdata, ydata),
                   off_grid |-> OffGrid(plot, ws)],
                  PlotBarsXY(plot, xdata, ydata, <<>>, b))

DrawLineCall ==
  \E x_begin \in LineCoordinates, y_begin \in LineCoordinates,
     x_end \in LineCoordinates, y_end \in LineCoordinates :
    PlotCall2("DrawLine",
              [x_begin |-> x_begin, y_begin |-> y_begin,
               x_end |-> x_end, y_end |-> y_end,
               ws |-> DrawLineWrites(plot, x_begin, y_begin, x_end, y_end)],
              DrawLine(plot, x_begin, y_begin, x_end, y_end))

\* FixedGamma(str)(level)
FixedGammaCall ==
  \E str \in GammaStrings, level \in 0..(kLevels - 1) :
    LET g == FixedGammaSet(str)
        r == FixedGammaAt(g, level)
    IN  /\ hist' = Recorded(Call("FixedGamma",
                     [str |-> str, level |-> level, b |-> r.b,
                      index |-> RecodedIndex(Len(str), level)],
                     r.threw, plot))
        /\ UNCHANGED <<plot, other, brush, build, grouper, grid, gamma>>

\* ParsePayload of a well-formed bitmap
ParsePayloadCall ==
  \E bits_per_pixel \in {1, 24, 8}, width \in ImageWidths, height \in Dims,
     seed \in 1..MaxLen, junk \in {0, 255} :
    LET r == ParsePayload(bits_per_pixel, width, height,
                          Payload(bits_per_pixel, width, height, seed), junk)
    IN  /\ hist' = Recorded(Call("ParsePayload",
                     [bits_per_pixel |-> bits_per_pixel, width |-> width,
                      height |-> height, img |-> r.img,
                      row_start |-> [i \in 1..height |->
                                       IF bits_per_pixel = 1
                                         THEN RowStart1(width, i - 1)
                                         ELSE RowStart24(width, i - 1)]],
                     r.threw, plot))
        /\ UNCHANGED <<plot, other, brush, build, grouper, grid, gamma>>

----------------------------------------------------------------------------
(* Specifications *)

NoBrush == [live |-> FALSE, name |-> "*", value |-> <<>>]

\* the canvas of examples/fusion.cpp: Plot(10,5)
ExampleSize == <<10, 5>>

NoGrouper == [live |-> FALSE]

NoGrid == [live |-> FALSE]

NoGamma == [live |-> FALSE]

Idle ==
  /\ other = NewPlot(1, 1)
  /\ brush = NoBrush
  /\ grouper = NoGrouper
  /\ grid = NoGrid
  /\ gamma = NoGamma
  /\ hist = <<>>
  /\ ncalls = 0

\* A canvas from construction on: fills, setters, Shift, Move, Serialize
Init ==
  /\ build \in StoreOutcomes
  /\ \E wh \in Sizes : plot = NewPlot(wh[1], wh[2])
  /\ Idle

Next ==
  /\ ncalls < MaxCalls
  /\ ncalls' = ncalls + 1
  /\ \/ FillCall
     \/ ClearCall
     \/ SetBrushCall
     \/ SetTitleCall
     \/ SetXlimitsCall
     \/ SetYlimitsCall
     \/ AutoLimitCall
     \/ ShiftCall
     \/ MoveCall
     \/ SerializeCall

Spec == Init /\ [][Next]_vars

\* Serialize and Fill on canvases whose glyphs are 0, 1 and 2 bytes long
InitSerialize ==
  /\ build \in StoreOutcomes
  /\ \E wh \in Sizes, s \in 0..4 :
       plot = Patterned(wh[1], wh[2],
                <<BrushDefault, Dot, TwoByte, BrushOf(<<TAB>>).b, TwoByteLF>>, s)
  /\ Idle

NextSerialize ==
  /\ UNCHANGED ncalls
  /\ \/ FillCall
     \/ SerializeCall

SpecSerialize == InitSerialize /\ [][NextSerialize]_vars

\* One Fuse of a source canvas onto a pre-filled destination
InitFuse ==
  /\ build = <<>>
  /\ \E wh \in Sizes, b \in {Dot, BrushDefault} :
       plot = Fill(NewPlot(wh[1], wh[2]), b)
  /\ \E wh \in Sizes, s \in 0..(Len(CellBrushes) - 1) :
       other = Patterned(wh[1], wh[2], CellBrushes, s)
  /\ brush = NoBrush
  /\ grouper = NoGrouper
  /\ grid = NoGrid
  /\ gamma = NoGamma
  /\ hist = <<>>
  /\ ncalls = 0

NextFuse ==
  /\ hist = <<>>
  /\ UNCHANGED ncalls
  /\ FuseCall

SpecFuse == InitFuse /\ [][NextFuse]_vars

\* One AdjustAbsolutePosition, or one Fuse, on a canvas of any size
InitAdjust ==
  /\ build = <<>>
  /\ \E wh \in Sizes : plot = Fill(NewPlot(wh[1], wh[2]), Dot)
  /\ \E wh \in Sizes : other = Patterned(wh[1], wh[2], CellBrushes, 1)
  /\ brush = NoBrush
  /\ grouper = NoGrouper
  /\ grid = NoGrid
  /\ gamma = NoGamma
  /\ hist = <<>>
  /\ ncalls = 0

NextAdjust ==
  /\ hist = <<>>
  /\ UNCHANGED ncalls
  /\ \/ AdjustCall
     \/ FuseCall

SpecAdjust == InitAdjust /\ [][NextAdjust]_vars

\* Two shifts, one after the other, of a canvas with one cell set
InitShift ==
  /\ build = <<>>
  /\ \E wh \in Sizes, c \in 0..(MaxDim - 1), r \in 0..(MaxDim - 1),
        b \in {LetterA, BlankHash} :
       /\ c < wh[1]
       /\ r < wh[2]
       /\ plot = Marked(wh[1], wh[2], c, r, b)
  /\ Idle

NextShift ==
  /\ Len(hist) < 2
  /\ UNCHANGED ncalls
  /\ ShiftCall

SpecShift == InitShift /\ [][NextShift]_vars

\* One text call on a filled canvas
InitText ==
  /\ build \in StoreOutcomes
  /\ \E wh \in Sizes \cup {ExampleSize}, b \in {Dot, BrushDefault} :
       plot = Fill(NewPlot(wh[1], wh[2]), b)
  /\ Idle

NextText ==
  /\ hist = <<>>
  /\ UNCHANGED ncalls
  /\ \/ DrawTextCall
     \/ DrawTextCenteredCall
     \/ DrawTextVerticalCall
     \/ DrawTextVerticalCenteredCall

SpecText == InitText /\ [][NextText]_vars

\* Brush objects: constructed, then set again and again
InitBrush ==
  /\ build \in StoreOutcomes
  /\ plot = NewPlot(1, 1)
  /\ Idle

NextBrush ==
  /\ UNCHANGED ncalls
  /\ \/ BrushCall
     \/ SetValueCall

SpecBrush == InitBrush /\ [][NextBrush]_vars

\* One construction of a Plot
InitCtor ==
  /\ build = <<>>
  /\ plot = NewPlot(1, 1)
  /\ Idle

NextCtor ==
  /\ hist = <<>>
  /\ UNCHANGED ncalls
  /\ PlotCall

SpecCtor == InitCtor /\ [][NextCtor]_vars

\* The axis limits: setters, the auto-limit mask, and data calls
InitLimits ==
  /\ build = <<>>
  /\ \E wh \in Sizes : plot = NewPlot(wh[1], wh[2])
  /\ Idle

NextLimits ==
  /\ ncalls < MaxCalls
  /\ ncalls' = ncalls + 1
  /\ \/ SetXlimLeftCall
     \/ SetXlimRightCall
     \/ SetXlimitsCall
     \/ SetYlimBottomCall
     \/ SetYlimTopCall
     \/ SetYlimitsCall
     \/ AutoLimitAnyCall
     \/ SetAutoLimitsCall
     \/ DrawPointsCall
     \/ PlotDataCall

SpecLimits == InitLimits /\ [][NextLimits]_vars

\* whether the last call was Commit
Committed == IF hist = <<>> THEN FALSE ELSE Last.op = "Commit"

\* A BarGrouper on a fresh BarPlot: series are added, then committed
InitGrouper ==
  /\ build = <<>>
  /\ \E wh \in Sizes : plot = NewBarPlot(wh[1], wh[2])
  /\ grouper = NewGrouper
  /\ other = NewPlot(1, 1)
  /\ brush = NoBrush
  /\ grid = NoGrid
  /\ gamma = NoGamma
  /\ hist = <<>>
  /\ ncalls = 0

NextGrouper ==
  /\ ~Committed
  /\ \/ /\ ncalls < MaxCalls
        /\ ncalls' = ncalls + 1
        /\ (AddCall \/ AddNextCall)
     \/ /\ UNCHANGED ncalls
        /\ CommitCall

SpecGrouper == InitGrouper /\ [][NextGrouper]_vars

\* whether the program is still running: no call has thrown or trapped
Returned == IF hist = <<>> THEN TRUE ELSE Last.threw = ""

\* the canvas of the histogram example: 10 high, wide enough for 3 bins
HistSize == <<3, 10>>

\* Histograms drawn one after the other on one HistPlot
InitHist ==
  /\ build = <<>>
  /\ \E wh \in Sizes \cup {HistSize} : plot = NewHistPlot(wh[1], wh[2])
  /\ Idle

NextHist ==
  /\ ncalls < MaxCalls
  /\ ncalls' = ncalls + 1
  /\ Returned
  /\ PlotHistogramCall

SpecHist == InitHist /\ [][NextHist]_vars

\* A GridPlot: constructed, sub-canvases set in row-major order, serialized;
\* once in a run an entry is set by SetPlotAt or a cell is stored through At
InitGrid ==
  /\ build = <<>>
  /\ plot = NewPlot(1, 1)
  /\ Idle

NextGrid ==
  /\ Returned
  /\ \/ /\ ~grid.live
        /\ UNCHANGED ncalls
        /\ GridCtorCall
     \/ /\ grid.live
        /\ UNCHANGED ncalls
        /\ (RowMajorSetCall \/ GridSerializeCall)
     \/ /\ grid.live
        /\ ncalls = 0
        /\ ncalls' = 1
        /\ (SetPlotAtCall \/ GridStoreCall)

SpecGrid == InitGrid /\ [][NextGrid]_vars

\* The two GridPlot constructors
NextGridCtor ==
  /\ ~grid.live
  /\ UNCHANGED ncalls
  /\ (GridCtorCall \/ GridCtorListsCall)

SpecGridCtor == InitGrid /\ [][NextGridCtor]_vars

\* Position resolution on canvases of every size
InitPosition ==
  /\ build = <<>>
  /\ \E wh \in Sizes \cup {ExampleSize} : plot = NewPlot(wh[1], wh[2])
  /\ Idle

NextPosition ==
  /\ hist = <<>>
  /\ UNCHANGED ncalls
  /\ GetAbsolutePositionCall

SpecPosition == InitPosition /\ [][NextPosition]_vars

\* Legends: up to MaxCalls labelled series, then DrawLegend
InitLegend ==
  /\ build = <<>>
  /\ \E wh \in LegendSizes : plot = NewPlot(wh[1], wh[2])
  /\ Idle

NextLegend ==
  \/ /\ ncalls < MaxCalls
     /\ ncalls' = ncalls + 1
     /\ PlotSeriesCall
  \/ /\ ncalls <= MaxCalls
     /\ ncalls' = MaxCalls + 1
     /\ DrawLegendCall

SpecLegend == InitLegend /\ [][NextLegend]_vars

\* Points in data space: limits set by hand, then DrawPoint
InitPoint ==
  /\ build = <<>>
  /\ \E wh \in Sizes : plot = NewPlot(wh[1], wh[2])
  /\ Idle

NextPoint ==
  /\ ncalls < MaxCalls
  /\ ncalls' = ncalls + 1
  /\ \/ SetXlimitsCall
     \/ SetYlimitsCall
     \/ DrawPointCall

SpecPoint == InitPoint /\ [][NextPoint]_vars

\* Restyling: SetBrush and Fill, then Redraw
InitRedraw ==
  /\ build = <<>>
  /\ \E wh \in Sizes, s \in 0..(Len(RedrawBrushes) - 1) :
       plot = Patterned(wh[1], wh[2], RedrawBrushes, s)
  /\ Idle

NextRedraw ==
  /\ ncalls < MaxCalls
  /\ ncalls' = ncalls + 1
  /\ \/ SetBrushCall
     \/ RedrawCall

SpecRedraw == InitRedraw /\ [][NextRedraw]_vars

\* One DrawImage of an image into a box on a fresh canvas
InitImage ==
  /\ build = <<>>
  /\ \E wh \in Sizes : plot = NewPlot(wh[1], wh[2])
  /\ Idle

NextImage ==
  /\ hist = <<>>
  /\ UNCHANGED ncalls
  /\ DrawImageCall

SpecImage == InitImage /\ [][NextImage]_vars

\* A TextGamma object the caller keeps, used directly and by DrawImage
InitTextGamma ==
  /\ build = <<>>
  /\ plot = NewPlot(MaxDim, MaxDim)
  /\ other = NewPlot(1, 1)
  /\ brush = NoBrush
  /\ grouper = NoGrouper
  /\ grid = NoGrid
  /\ \E text \in {Letters(2), Letters(3)} : gamma = TextGammaOf(text)
  /\ hist = <<>>
  /\ ncalls = 0

NextTextGamma ==
  /\ ncalls < MaxCalls
  /\ ncalls' = ncalls + 1
  /\ \/ TextGammaCall
     \/ DrawImageTextCall

SpecTextGamma == InitTextGamma /\ [][NextTextGamma]_vars

\* Bar charts of (x, y) series on a BarPlot
InitBars ==
  /\ build = <<>>
  /\ \E wh \in BarSizes : plot = NewBarPlot(wh[1], wh[2])
  /\ Idle

NextBars ==
  /\ ncalls < MaxCalls
  /\ ncalls' = ncalls + 1
  /\ PlotBarsXYCall

SpecBars == InitBars /\ [][NextBars]_vars

\* One line between two points of a fresh canvas
InitLine ==
  /\ build = <<>>
  /\ \E wh \in Sizes : plot = NewPlot(wh[1], wh[2])
  /\ Idle

NextLine ==
  /\ hist = <<>>
  /\ UNCHANGED ncalls
  /\ DrawLineCall

SpecLine == InitLine /\ [][NextLine]_vars

\* The lookup of one level in a FixedGamma built from a string
InitFixedGamma ==
  /\ build = <<>>
  /\ plot = NewPlot(1, 1)
  /\ Idle

NextFixedGamma ==
  /\ hist = <<>>
  /\ UNCHANGED ncalls
  /\ FixedGammaCall

SpecFixedGamma == InitFixedGamma /\ [][NextFixedGamma]_vars

\* Decoding the payload of one bitmap
InitParse ==
  /\ build = <<>>
  /\ plot = NewPlot(1, 1)
  /\ Idle

NextParse ==
  /\ hist = <<>>
  /\ UNCHANGED ncalls
  /\ ParsePayloadCall

SpecParse == InitParse /\ [][NextParse]_vars

----------------------------------------------------------------------------
(* Claims *)

Called(op) == hist # <<>> /\ Last.op = op

\* the text of one printed line: the glyphs of row `row`, left to right
RowText(p, row) == Concat([c \in 1..p.width_ |-> At(p, c - 1, row).value])

\* C1: Serialize returns exactly height_ newline-terminated lines, the k-th
\* of them (from 0) the glyph values of row height_-1-k from column 0 to
\* column width_-1; right after Fill(b) every line is width_ times b's glyph.
C1_SerializeLines ==
  Called("Serialize") =>
    LET p == Last.pre
        h == p.height_
        w == p.width_
    IN  /\ Last.arg.out = Concat([k \in 1..h |-> RowText(p, h - k) \o <<LF>>])
        /\ (Len(hist) = 2 /\ hist[1].op = "Fill") =>
             LET v == hist[1].arg.brush.value
             IN  /\ Last.arg.out =
                      Concat([k \in 1..h |-> Concat([c \in 1..w |-> v]) \o <<LF>>])
                 /\ Len(Last.arg.out) = h * (w * Len(v) + 1)

C1_Witness ==
  /\ Called("Serialize")
  /\ Len(hist) = 2
  /\ hist[1].op = "Fill"
  /\ hist[1].arg.brush = TwoByte
  /\ plot.width_ = MaxDim
  /\ plot.height_ = MaxDim

\* C2: Fuse with blanks kept and no adjustment at the offset (dx, dy) stores
\* only into cells of the destination grid; afterwards cell (c, r) holds the
\* source's cell (c-dx, r-dy) where the source has one and is unchanged where
\* not, and nothing but the cells changes.  Same size and offset (0,0): the
\* destination's cells are the source's.
C2_FuseKeepBlanks ==
  (/\ Called("Fuse")
   /\ Last.arg.keep_blanks
   /\ ~Last.arg.adjust
   /\ Last.arg.position.relative = "SouthWest") =>
    LET pre == Last.pre
        dx == Last.arg.position.offset.col
        dy == Last.arg.position.offset.row
    IN  /\ ~Last.arg.off_grid
        /\ plot = [pre EXCEPT !.canvas_ = plot.canvas_]
        /\ Len(plot.canvas_) = Len(pre.canvas_)
        /\ \A cr \in Cells(pre) :
             At(plot, cr[1], cr[2]) =
               IF InGrid(other, cr[1] - dx, cr[2] - dy)
                 THEN At(other, cr[1] - dx, cr[2] - dy)
                 ELSE At(pre, cr[1], cr[2])
        /\ (dx = 0 /\ dy = 0 /\ other.width_ = pre.width_
              /\ other.height_ = pre.height_) => plot.canvas_ = other.canvas_

\* a fusion at a negative offset that overlaps the destination in part
C2_Witness ==
  /\ Called("Fuse")
  /\ Last.arg.keep_blanks
  /\ ~Last.arg.adjust
  /\ Last.arg.position = Position(Offset(0 - 1, 1), "SouthWest")
  /\ other.width_ = MaxDim
  /\ other.height_ = MaxDim
  /\ plot.width_ = MaxDim
  /\ plot.height_ = MaxDim
  /\ plot.canvas_ # Last.pre.canvas_

\* C3: Fuse ignoring blanks leaves a destination cell as it was where the
\* source cell over it is named "Blank", whatever its glyph, and stores the
\* source cell where it has any other name, a space glyph included; cells
\* the source does not cover are unchanged.
C3_FuseIgnoreBlanks ==
  (Called("Fuse") /\ ~Last.arg.keep_blanks) =>
    LET pre == Last.pre
        off == FuseOffset(pre, other, Last.arg.position, Last.arg.adjust)
    IN  /\ ~Last.arg.off_grid
        /\ \A cr \in Cells(pre) :
             At(plot, cr[1], cr[2]) =
               IF /\ InGrid(other, cr[1] - off.col, cr[2] - off.row)
                  /\ At(other, cr[1] - off.col, cr[2] - off.row).name # "Blank"
                 THEN At(other, cr[1] - off.col, cr[2] - off.row)
                 ELSE At(pre, cr[1], cr[2])

\* a space glyph that is not "Blank" was copied, a "Blank" with a glyph was not
C3_Witness ==
  /\ Called("Fuse")
  /\ ~Last.arg.keep_blanks
  /\ Last.arg.position = Position(Offset(0, 0), "SouthWest")
  /\ \E cr \in Cells(plot) :
       /\ InGrid(other, cr[1], cr[2])
       /\ At(other, cr[1], cr[2]) = SpaceGlyph
       /\ At(Last.pre, cr[1], cr[2]) = Dot
       /\ At(plot, cr[1], cr[2]) = SpaceGlyph
  /\ \E cr \in Cells(plot) :
       /\ InGrid(other, cr[1], cr[2])
       /\ At(other, cr[1], cr[2]) = BlankHash
       /\ At(plot, cr[1], cr[2]) = Dot

\* C4: Shift(Offset(0,0)) and Move(Offset(0,0)) change nothing: cells,
\* palette, axis limits, auto-limit mask, title and legend entries are what
\* they were before the call.
C4_ZeroOffsetNoOp ==
  (/\ Called("Shift") \/ Called("Move")
   /\ Last.arg.offset = Offset(0, 0)) => plot = Last.pre

\* C5: Shift(dx,dy) then Shift(-dx,-dy), when every cell the first shift
\* pushes off the grid is a default blank, gives back the grid cell for
\* cell; and a shift never wraps: cell (c, r) holds what (c-dx, r-dy) held,
\* a default blank where that is off the grid.
C5_ShiftRoundTrip ==
  Called("Shift") =>
    LET pre == Last.pre
        d == Last.arg.offset
    IN  /\ \A cr \in Cells(pre) :
             At(plot, cr[1], cr[2]) =
               IF InGrid(pre, cr[1] - d.col, cr[2] - d.row)
                 THEN At(pre, cr[1] - d.col, cr[2] - d.row)
                 ELSE BrushDefault
        /\ (/\ Len(hist) = 2
            /\ hist[1].op = "Shift"
            /\ d = Offset(0 - hist[1].arg.offset.col, 0 - hist[1].arg.offset.row)
            /\ \A cr \in Cells(hist[1].pre) :
                 InGrid(pre, cr[1] - d.col, cr[2] - d.row)
                   \/ At(hist[1].pre, cr[1], cr[2]) = BrushDefault)
             => plot.canvas_ = hist[1].pre.canvas_

\* a round trip that moved the one set cell and brought it back
C5_Witness ==
  /\ Len(hist) = 2
  /\ hist[1].op = "Shift"
  /\ hist[2].op = "Shift"
  /\ hist[1].arg.offset = Offset(1, 0 - 1)
  /\ hist[2].arg.offset = Offset(0 - 1, 1)
  /\ hist[2].pre.canvas_ # hist[1].pre.canvas_
  /\ plot.canvas_ = hist[1].pre.canvas_
  /\ \E cr \in Cells(plot) : At(plot, cr[1], cr[2]) = LetterA

\* C6: for a box no larger than the canvas AdjustAbsolutePosition returns a
\* position at which the whole box is on the canvas (upwards: rows row ..
\* row+boxH-1; downwards: rows row-boxH+1 .. row), so that Fuse with
\* adjustment copies every cell of a source no larger than the destination.
C6_BoxOnCanvas ==
  /\ (/\ Called("AdjustAbsolutePosition")
      /\ Last.arg.box_width <= Last.pre.width_
      /\ Last.arg.box_height <= Last.pre.height_) =>
       LET col == Last.arg.result.offset.col
           row == Last.arg.result.offset.row
           w == Last.pre.width_
           h == Last.pre.height_
       IN  /\ 0 <= col
           /\ col + Last.arg.box_width <= w
           /\ IF Last.arg.drawing_upwards
                THEN 0 <= row /\ row + Last.arg.box_height <= h
                ELSE row <= h - 1 /\ row - Last.arg.box_height + 1 >= 0
  /\ (/\ Called("Fuse")
      /\ Last.arg.adjust
      /\ Last.arg.keep_blanks
      /\ other.width_ <= Last.pre.width_
      /\ other.height_ <= Last.pre.height_) =>
       LET off == FuseOffset(Last.pre, other, Last.arg.position, TRUE)
       IN  \A ij \in Cells(other) :
             /\ InGrid(plot, ij[1] + off.col, ij[2] + off.row)
             /\ At(plot, ij[1] + off.col, ij[2] + off.row) = At(other, ij[1], ij[2])

\* the Brush DrawText stores for one character of the text
Glyph(ch) == BrushNamed("*", <<ch>>).b

\* where a text call that returned started writing
TextStart(e) ==
  LET len == Len(e.arg.text)
      anchor == IF e.op = "DrawTextCentered"
                  THEN PositionMinus(e.arg.position, Offset(len \div 2, 0))
                  ELSE e.arg.position
      pos == GetAbsolutePosition(e.pre, anchor)
  IN  IF e.arg.adjust
        THEN AdjustAbsolutePosition(e.pre, pos, len, 1, FALSE).offset
        ELSE pos.offset

\* C7: DrawText and DrawTextCentered (the anchor column less len div 2)
\* store character i of the text in cell (c0+i, row) of the one row of the
\* resolved, on request adjusted, position; adjusted, a text no longer than
\* the canvas is wide lies on the canvas whole; a character whose cell is off
\* the canvas is dropped, no store leaves the grid, and every other cell is
\* unchanged.  "BOX1" centered at Center of a 10x5 canvas of dots prints as
\* "...BOX1..." between two lines of dots above and two below.
C7_TextPlacement ==
  (/\ Called("DrawText") \/ Called("DrawTextCentered")
   /\ Last.threw = "") =>
    LET pre == Last.pre
        text == Last.arg.text
        o == TextStart(Last)
        dots == <<46, 46, 46, 46, 46, 46, 46, 46, 46, 46, 10>>
    IN  /\ ~Last.arg.off_grid
        /\ plot = [pre EXCEPT !.canvas_ = plot.canvas_]
        /\ \A cr \in Cells(pre) :
             At(plot, cr[1], cr[2]) =
               IF cr[2] = o.row /\ o.col <= cr[1] /\ cr[1] < o.col + Len(text)
                 THEN Glyph(text[cr[1] - o.col + 1])
                 ELSE At(pre, cr[1], cr[2])
        /\ (Last.arg.adjust /\ Len(text) <= pre.width_) =>
             /\ 0 <= o.col
             /\ o.col + Len(text) <= pre.width_
             /\ 0 <= o.row
             /\ o.row < pre.height_
        /\ (/\ Last.op = "DrawTextCentered"
            /\ pre = Fill(NewPlot(10, 5), Dot)
            /\ text = BOX1
            /\ Last.arg.position = Position(Offset(0, 0), "Center")) =>
             Serialize(plot) =
               dots \o dots \o <<46, 46, 46, 66, 79, 88, 49, 46, 46, 46, 10>>
                    \o dots \o dots

\* the call of examples/fusion.cpp, line 9
C7_Witness ==
  /\ Called("DrawTextCentered")
  /\ Last.threw = ""
  /\ Last.pre = Fill(NewPlot(10, 5), Dot)
  /\ Last.arg.text = BOX1
  /\ Last.arg.position = Position(Offset(0, 0), "Center")
  /\ Last.arg.adjust
  /\ At(plot, 3, 2) = [name |-> "*", value |-> <<66>>]
  /\ At(plot, 6, 2) = [name |-> "*", value |-> <<49>>]

\* C8: a text call that raises InvalidBrushValue leaves the cells exactly as
\* they were before the call.
C8_TextAtomic ==
  (/\ \/ Called("DrawText")
      \/ Called("DrawTextCentered")
      \/ Called("DrawTextVertical")
      \/ Called("DrawTextVerticalCentered")
   /\ Last.threw = "InvalidBrushValue") => plot.canvas_ = Last.pre.canvas_

\* C9: a Brush that was constructed or set holds a value of 1 or 2 bytes: a
\* printable first byte alone; one space for a single tab, newline or
\* carriage return; a 2-byte sequence with a non-printable first byte as it
\* is; the empty string and any other single non-printable byte raise
\* InvalidBrushValue and leave the value as it was.
C9_GlyphValue ==
  (Called("Brush") \/ Called("SetValue")) =>
    LET v == Last.arg.value
        invalid == \/ v = <<>>
                   \/ /\ Len(v) = 1
                      /\ ~IsPrint(v[1])
                      /\ v[1] \notin {TAB, LF, CR}
    IN  /\ invalid <=> Last.threw = "InvalidBrushValue"
        /\ invalid => brush.value = Last.pre.value
        /\ Last.threw = "" =>
             /\ Len(brush.value) \in {1, 2}
             /\ IsPrint(v[1]) => brush.value = <<v[1]>>
             /\ v \in {<<TAB>>, <<LF>>, <<CR>>} => brush.value = <<SPACE>>
             /\ (Len(v) = 2 /\ ~IsPrint(v[1])) => brush.value = v

\* C10: a negative width or height raises InvalidPlotSize; with one size
\* explicit and positive and the other 0, the canvas has the explicit size
\* as given and the other from the terminal query.
C10_MixedSizes ==
  Called("Plot") =>
    LET a == Last.arg
    IN  /\ (a.width < 0 \/ a.height < 0) => Last.threw = "InvalidPlotSize"
        /\ (a.width > 0 /\ a.height = 0) =>
             /\ Last.threw = ""
             /\ plot.width_ = a.width
             /\ plot.height_ = a.ws_row - 1
        /\ (a.width = 0 /\ a.height > 0) =>
             /\ Last.threw = ""
             /\ plot.width_ = a.ws_col
             /\ plot.height_ = a.height


\* C11: in every reachable state the axis limits are ordered,
\* xlim_left_ < xlim_right_ and ylim_bottom_ < ylim_top_, whatever setters,
\* mask changes and data calls (all-equal data included) were made.
C11_LimitsOrdered ==
  /\ DblLess(plot.xlim_left_, plot.xlim_right_)
  /\ DblLess(plot.ylim_bottom_, plot.ylim_top_)


\* the bar slots the accepted series need: groups * size + (groups - 1)
BarSlots(g) == g.ngroups_ * g.group_size_ + (g.ngroups_ - 1)

\* whether every series the grouper accepted has the same length
EqualSeries(g) ==
  \A j \in 1..Len(g.metadata_) : Len(g.metadata_[j].ydata) = g.ngroups_

\* C12: with equal-length series the accepted series count g and the group
\* count n satisfy n*g + (n-1) <= W after every Add; an Add that is turned
\* down leaves the series list, the group size, and the base plot's legend
\* entries and y-limits as they were.
C12_GroupFits ==
  Called("Add") =>
    /\ (EqualSeries(grouper) /\ Len(Last.arg.ydata) = grouper.ngroups_)
         => BarSlots(grouper) <= plot.width_
    /\ ~Last.arg.accepted =>
         /\ grouper.metadata_ = Last.arg.grouper.metadata_
         /\ grouper.group_size_ = Last.arg.grouper.group_size_
         /\ plot = Last.pre

\* C13: no call reads an element past the end of a series: not Add with a
\* series shorter than the group count, not Commit after a longer series
\* followed shorter ones.
C13_NoReadPastEnd ==
  (Called("Add") \/ Called("Commit")) => ~Last.arg.past_end


\* the number of distinct values of a sample
Distinct(data) == Cardinality({data[k] : k \in 1..Len(data)})

\* C14: every PlotHistogram call, a later one on the same canvas included,
\* uses min(canvas width, number of distinct values of its data) bins.
C14_BinCount ==
  Called("PlotHistogram") =>
    plot.nbins_ = Min(plot.width_, Distinct(Last.arg.data))

\* C15: a PlotHistogram call that returns leaves exactly one bar descriptor
\* per bin and no others, bar i of height
\* floor(count_i / maxCount * H * min(1, resize)): 3 bars for
\* [1,1,1,2,2,3] on a canvas 3 wide, the tallest 8 high for H = 10 and
\* resize = 0.8.
C15_OneBarPerBin ==
  (Called("PlotHistogram") /\ Last.threw = "" /\ Distinct(Last.arg.data) > 1) =>
    /\ Len(plot.bars_) = plot.nbins_
    /\ (/\ Last.arg.data = <<1, 1, 1, 2, 2, 3>>
        /\ <<Last.pre.width_, Last.pre.height_>> = HistSize
        /\ Last.pre.nbins_ = 3
        /\ Last.arg.height_resize = DblOf(8, 10))
         => /\ Len(plot.bars_) = 3
            /\ IntMax([k \in 1..Len(plot.bars_) |-> plot.bars_[k].height_]) = 8


\* C16: whichever constructor built a GridPlot, its column widths sum to
\* the parent's width, its row heights to the parent's height, and plots_
\* has rows*cols entries; the rows/cols constructor gives slice i the size
\* floor(dim/n) + 1 when i < dim mod n and floor(dim/n) otherwise.
C16_GridSlices ==
  (Called("GridPlot") \/ Called("GridPlotLists")) =>
    /\ Accumulate(grid.subp_widths_) = plot.width_
    /\ Accumulate(grid.subp_heights_) = plot.height_
    /\ Len(grid.plots_) = grid.grid_rows_ * grid.grid_cols_
    /\ Called("GridPlot") =>
         /\ \A i \in 0..(grid.grid_cols_ - 1) :
              grid.subp_widths_[i + 1] =
                (plot.width_ \div grid.grid_cols_)
                  + (IF i < plot.width_ % grid.grid_cols_ THEN 1 ELSE 0)
         /\ \A i \in 0..(grid.grid_rows_ - 1) :
              grid.subp_heights_[i + 1] =
                (plot.height_ \div grid.grid_rows_)
                  + (IF i < plot.height_ % grid.grid_rows_ THEN 1 ELSE 0)


\* the sub-canvas of grid row gr and grid column gc (from 0)
SubAt(g, gr, gc) == g.plots_[gr * g.grid_cols_ + gc + 1]

\* whether every entry holds a sub-canvas of the size of its slice
FullGrid(g) ==
  /\ Len(g.plots_) = g.grid_rows_ * g.grid_cols_
  /\ \A gr \in 0..(g.grid_rows_ - 1), gc \in 0..(g.grid_cols_ - 1) :
       /\ ~IsNull(SubAt(g, gr, gc))
       /\ SubAt(g, gr, gc).width_ = g.subp_widths_[gc + 1]
       /\ SubAt(g, gr, gc).height_ = g.subp_heights_[gr + 1]

\* the printed lines of grid row gr: line by line, the lines of its
\* sub-canvases side by side, left to right
TiledBand(g, gr) ==
  Concat([l \in 1..g.subp_heights_[gr + 1] |->
            Concat([gc \in 1..g.grid_cols_ |->
                      RowText(SubAt(g, gr, gc - 1),
                              g.subp_heights_[gr + 1] - l)]) \o <<LF>>])

\* the serializations of the sub-canvases tiled in row-major order
Tiled(g) == Concat([gr \in 1..g.grid_rows_ |-> TiledBand(g, gr - 1)])

\* C17: on a grid of the rows/cols constructor whose entries all hold a
\* sub-canvas of the size of their slice, every cell of the parent resolves
\* to in-range local coordinates of one entry, grid row 0 at the top and
\* grid column 0 at the left: Serialize is the sub-canvases' serializations
\* tiled in row-major order, the order in which the row-major setter
\* assigns them; a cell of an entry without sub-canvas shows the parent's
\* own cell.
C17_GridTiling ==
  /\ (Called("GridSerialize") /\ Last.threw = "") =>
       /\ FullGrid(grid) =>
            /\ Last.arg.result = Tiled(grid)
            /\ \A cr \in Cells(plot) :
                 LET at == GridLocate(grid, cr[1], cr[2])
                 IN  /\ at.slot \in 0..(grid.grid_rows_ * grid.grid_cols_ - 1)
                     /\ InGrid(grid.plots_[at.slot + 1], at.col, at.row)
       /\ (\A k \in 1..Len(grid.plots_) : IsNull(grid.plots_[k])) =>
            Last.arg.result = Serialize(plot)
       /\ \A cr \in Cells(plot) :
            IsNull(grid.plots_[GridLocate(grid, cr[1], cr[2]).slot + 1]) =>
              GridAt(grid, plot, cr[1], cr[2]) = At(plot, cr[1], cr[2])
  /\ (Called("RowMajorSet") /\ Last.arg.idx_ < grid.grid_rows_ * grid.grid_cols_) =>
       SubAt(grid, Last.arg.idx_ \div grid.grid_cols_,
                   Last.arg.idx_ % grid.grid_cols_) = Last.arg.plot

\* a grid of two rows and two columns, every entry set, whose top-left and
\* bottom-left sub-canvases differ, serialized as the tiling
C17_Witness ==
  /\ Called("GridSerialize")
  /\ FullGrid(grid)
  /\ grid.grid_rows_ = 2
  /\ grid.grid_cols_ = 2
  /\ SubAt(grid, 0, 0) # SubAt(grid, 1, 0)
  /\ Last.arg.result = Tiled(grid)


\* C18: on a canvas with W, H > 0 each of the 9 anchors with a zero offset
\* resolves to a column in 0..W-1 and a row in 0..H-1; SouthWest with any
\* offset resolves to that offset; resolving a resolved position again
\* returns it unchanged.
C18_AnchorsOnCanvas ==
  Called("GetAbsolutePosition") =>
    LET a == Last.arg
    IN  /\ a.position.offset = Offset(0, 0) =>
             InGrid(plot, a.result.offset.col, a.result.offset.row)
        /\ a.position.relative = "SouthWest" =>
             a.result = Position(a.position.offset, "SouthWest")
        /\ a.again = a.result

\* NorthEast with a zero offset resolved to the last column and row of a
\* canvas more than one cell wide and high
C18_Witness ==
  /\ Called("GetAbsolutePosition")
  /\ Last.arg.position = Position(Offset(0, 0), "NorthEast")
  /\ plot.width_ > 1
  /\ plot.height_ > 1
  /\ Last.arg.result.offset = Offset(plot.width_ - 1, plot.height_ - 1)


\* whether row `row` of p shows `line` from column `col` on
ShowsLine(p, line, col, row) ==
  \A k \in 1..Len(line) : At(p, col + k - 1, row).value = <<line[k]>>

\* whether p shows the border of `box`: the top line, the two sides, and
\* the bottom line between them
ShowsBox(p, box) ==
  LET right == box.pos_col + box.box_width - 1
      top == box.pos_row + box.box_height - 1
  IN  /\ \A c \in box.pos_col..right :
           At(p, c, top).value = DefaultBrushBorderTop
      /\ \A c \in (box.pos_col + 1)..(right - 1) :
           At(p, c, box.pos_row).value = DefaultBrushBorderBottom
      /\ \A r \in box.pos_row..(top - 1) :
           /\ At(p, box.pos_col, r).value = DefaultBrushBorderLeft
           /\ At(p, right, r).value = DefaultBrushBorderRight

\* the row of entry i (from 0, the oldest) when the newest entry is on the
\* line nearest the top of the box and the oldest nearest the bottom
LegendRowNewestOnTop(box, i) == box.pos_row + 1 + i

\* the legend of `pre` as p shows it: the box, and each entry two columns into its row
ShowsLegend(p, pre, box, newest_on_top) ==
  /\ box.box_width = LegendTextWidth(pre.metadata_) + 6
  /\ box.box_height = Len(pre.metadata_) + 2
  /\ ShowsBox(p, box)
  /\ \A i \in 0..(Len(pre.metadata_) - 1) :
       ShowsLine(p, LegendLine(pre.metadata_[i + 1]), box.pos_col + 2,
                 IF newest_on_top THEN LegendRowNewestOnTop(box, i)
                                  ELSE LegendRow(box, i))

\* C19: DrawLegend leaves the canvas unchanged when metadata_ is empty;
\* otherwise the canvas shows a bordered box of width longest label + 6 and
\* height entries + 2 with one line per entry, the newest entry on the line
\* nearest the top of the box and the oldest nearest the bottom.
C19_LegendNewestOnTop ==
  Called("DrawLegend") =>
    IF Len(Last.pre.metadata_) = 0 THEN plot = Last.pre
    ELSE ~Last.arg.off_grid =>
           ShowsLegend(plot, Last.pre, Last.arg.box, TRUE)

\* what the code does instead: the oldest entry is on the top line
LegendOldestOnTop ==
  Called("DrawLegend") =>
    IF Len(Last.pre.metadata_) = 0 THEN plot = Last.pre
    ELSE ~Last.arg.off_grid =>
           ShowsLegend(plot, Last.pre, Last.arg.box, FALSE)


\* C20: DrawPoint(x, y) leaves the canvas unchanged when x or y is on or
\* outside a limit; for a point strictly inside the limits it changes
\* exactly the cell (int((x - xlim_left_) / xstep),
\* int((y - ylim_bottom_) / ystep)), and that cell is inside the grid.
C20_PointInGrid ==
  Called("DrawPoint") =>
    LET pre == Last.pre
        x == Last.arg.x
        y == Last.arg.y
        c == PointCell(pre, x, y)
    IN  IF ~InLimits(pre, x, y) THEN plot = pre
        ELSE /\ InGrid(pre, c.col, c.row)
             /\ At(plot, c.col, c.row) = GetBrush(pre.palette_, "Main").b
             /\ \A d \in Cells(pre) :
                  d # <<c.col, c.row>> => At(plot, d[1], d[2]) = At(pre, d[1], d[2])


\* C21: after Redraw every cell named "*" is unchanged, every other cell
\* keeps its name and carries the glyph the palette maps the name to (the
\* blank glyph when the palette has no entry for it), and a second Redraw
\* gives the same grid.
C21_RedrawRestyles ==
  Called("Redraw") /\ Last.threw = "" =>
    LET pre == Last.pre
    IN  /\ \A k \in 1..Len(pre.canvas_) :
             LET old == pre.canvas_[k]
                 new == plot.canvas_[k]
             IN  IF IsGeneral(old) THEN new = old
                 ELSE /\ new.name = old.name
                      /\ IF old.name \in DOMAIN pre.palette_
                           THEN new.value = pre.palette_[old.name]
                           ELSE new.value \in {pre.palette_["Blank"],
                                               DefaultBrushBlank}
        /\ Last.arg.again = plot

\* the part that holds: literal cells are kept, and cells whose name the
\* palette knows keep the name and take the palette's glyph
RedrawKnownNames ==
  Called("Redraw") /\ Last.threw = "" =>
    \A k \in 1..Len(Last.pre.canvas_) :
      LET old == Last.pre.canvas_[k]
          new == plot.canvas_[k]
      IN  IF IsGeneral(old) THEN new = old
          ELSE old.name \in DOMAIN Last.pre.palette_ =>
                 new = [name |-> old.name, value |-> Last.pre.palette_[old.name]]


\* C22: whenever the image is wider or taller than the box (one or both),
\* cell (i, j) of the sub-canvas DrawImage renders is the gamma of the block
\* average of the whole image shrunk to min(image width, box width) x
\* min(image height, box height): nothing of the image is cropped.
C22_ImageShrunkToFit ==
  Called("DrawImage") =>
    LET a == Last.arg
        nw == Min(a.img.width_, a.img_width)
        nh == Min(a.img.height_, a.img_height)
        shrunk == ResizeBlocks(a.img, nw, nh)
    IN  (a.img.width_ > a.img_width \/ a.img.height_ > a.img_height) =>
          \A i \in 0..(nw - 1), j \in 0..(nh - 1) :
            At(a.subplot, i, j) = FixedGammaAt(a.g, ImageAt(shrunk, i, j)).b

\* the part that holds: an image at least as large as the box both ways
ImageShrunkWhenLarger ==
  Called("DrawImage") =>
    LET a == Last.arg
        shrunk == ResizeBlocks(a.img, a.img_width, a.img_height)
    IN  (a.img.width_ >= a.img_width /\ a.img.height_ >= a.img_height) =>
          \A i \in 0..(a.img_width - 1), j \in 0..(a.img_height - 1) :
            At(a.subplot, i, j) = FixedGammaAt(a.g, ImageAt(shrunk, i, j)).b


\* the first level of `levels` that is not below the threshold of g; 0 when
\* there is none
FirstEmitted(g, levels) ==
  LET up == {k \in 1..Len(levels) : levels[k] >= g.threshold_}
  IN  IF up = {} THEN 0 ELSE CHOOSE k \in up : \A j \in up : k <= j

\* C23: when two DrawImage calls are given the same TextGamma object and
\* the first emitted k characters of the text, the first pixel of the
\* second call that is not below the threshold gets character k mod (the
\* text's length), not character 0; pixels below the threshold get the
\* zero glyph.
C23_CounterPersists ==
  (Len(hist) = 2 /\ hist[1].op = "DrawImageText" /\ hist[2].op = "DrawImageText"
     /\ hist[1].arg.g.use_count_ = 0) =>
    LET first == hist[1].arg
        second == hist[2].arg
        text == second.g.text_
        k == Emitted(first.g, first.levels, Len(first.levels))
        at == FirstEmitted(second.g, second.levels)
    IN  /\ at # 0 => second.brushes[at].value = <<text[(k % Len(text)) + 1]>>
        /\ \A m \in 1..Len(second.levels) :
             second.levels[m] < second.g.threshold_ =>
               second.brushes[m] = second.g.zero_

\* what holds instead: the caller's object is as it was before DrawImage,
\* only the copy DrawImage worked on has counted
TextGammaCopied ==
  Called("DrawImageText") =>
    /\ gamma = Last.arg.g
    /\ Last.arg.copy.use_count_ =
         gamma.use_count_ + Emitted(gamma, Last.arg.levels, Len(Last.arg.levels))


\* the least difference between adjacent values of the sorted series
AdjacentGap(xdata) ==
  LET s == SortedDbl(xdata)
  IN  MinElement([k \in 1..(Len(s) - 1) |-> DblSub(s[k + 1], s[k])])

\* C24: for an x series with two distinct values or more, PlotBars(x, y)
\* takes as gap the least difference between adjacent values of the sorted
\* series and sets the x-limits to [min(x) - gap, max(x) + gap]; for
\* x = 0, 1, ..., N-1 the gap is 1, the limits are [-1, N] and every bar is
\* floor(W / (N + 1)) wide.
C24_BarGap ==
  Called("PlotBars") =>
    LET a == Last.arg
        gap == AdjacentGap(a.xdata)
        n == Len(a.xdata)
    IN  /\ a.min_diff = gap
        /\ plot.xlim_left_ = DblSub(MinElement(a.xdata), gap)
        /\ plot.xlim_right_ = DblAdd(MaxElement(a.xdata), gap)
        /\ a.xdata = RowNumbers(n) =>
             /\ gap = DblOf(1, 1)
             /\ plot.xlim_left_ = DblOf(0 - 1, 1)
             /\ plot.xlim_right_ = DblOf(n, 1)
             /\ a.bar_width = plot.width_ \div (n + 1)
             /\ \A k \in 1..Len(plot.bars_) : plot.bars_[k].width_ = a.bar_width

\* what the code computes: the gap is the least of the first value and the
\* adjacent differences, so the claim's limits come out only for a series
\* whose least value is not below its gap
BarGapWithFirst ==
  Called("PlotBars") =>
    LET a == Last.arg
        gap == AdjacentGap(a.xdata)
    IN  /\ a.min_diff = DblMin(MinElement(a.xdata), gap)
        /\ ~DblLess(MinElement(a.xdata), gap) =>
             /\ plot.xlim_left_ = DblSub(MinElement(a.xdata), gap)
             /\ plot.xlim_right_ = DblAdd(MaxElement(a.xdata), gap)


\* whether a <= b
DblLeq(a, b) == ~DblLess(b, a)

\* C25: after SetAutoLimits or DrawPoints with data on an axis, each side of
\* that axis that is in the mask has moved outward of the data (Left at or
\* below min(x), Right at or above max(x), Bottom at or below min(y), Top at
\* or above max(y)) in every combination of the mask, and a limit whose
\* side is not in the mask is unchanged.
C25_AutoLimitsOutward ==
  (Called("SetAutoLimits") \/ Called("DrawPoints") \/ Called("PlotData")) =>
    LET x == Last.arg.x
        y == Last.arg.y
        pre == Last.pre
        mask == pre.autolimit_
    IN  /\ Len(x) > 0 =>
             /\ "Left" \in mask => DblLeq(plot.xlim_left_, MinElement(x))
             /\ "Right" \in mask => DblLeq(MaxElement(x), plot.xlim_right_)
        /\ Len(y) > 0 =>
             /\ "Bottom" \in mask => DblLeq(plot.ylim_bottom_, MinElement(y))
             /\ "Top" \in mask => DblLeq(MaxElement(y), plot.ylim_top_)
        /\ "Left" \notin mask => plot.xlim_left_ = pre.xlim_left_
        /\ "Right" \notin mask => plot.xlim_right_ = pre.xlim_right_
        /\ "Bottom" \notin mask => plot.ylim_bottom_ = pre.ylim_bottom_
        /\ "Top" \notin mask => plot.ylim_top_ = pre.ylim_top_

\* the same without the one side that moves inward, Bottom enabled alone
AutoLimitsButBottomAlone ==
  (Called("SetAutoLimits") \/ Called("DrawPoints") \/ Called("PlotData")) =>
    LET x == Last.arg.x
        y == Last.arg.y
        pre == Last.pre
        mask == pre.autolimit_
    IN  /\ Len(x) > 0 =>
             /\ "Left" \in mask => DblLeq(plot.xlim_left_, MinElement(x))
             /\ "Right" \in mask => DblLeq(MaxElement(x), plot.xlim_right_)
        /\ Len(y) > 0 =>
             /\ ("Bottom" \in mask /\ "Top" \in mask) =>
                  DblLeq(plot.ylim_bottom_, MinElement(y))
             /\ "Top" \in mask => DblLeq(MaxElement(y), plot.ylim_top_)
        /\ "Left" \notin mask => plot.xlim_left_ = pre.xlim_left_
        /\ "Right" \notin mask => plot.xlim_right_ = pre.xlim_right_
        /\ "Bottom" \notin mask => plot.ylim_bottom_ = pre.ylim_bottom_
        /\ "Top" \notin mask => plot.ylim_top_ = pre.ylim_top_


\* the cells DrawLine assigned
LineCells(ws) == {<<ws[k].col, ws[k].row>> : k \in 1..Len(ws)}

\* C26: DrawLine steps along the axis with the strictly larger absolute
\* cell delta; when the two deltas are equal it steps by rows: it lights
\* exactly one cell in each row from the begin cell's row to the end cell's
\* row, the begin cell and the end cell included.
C26_LineTieByRows ==
  Called("DrawLine") =>
    LET a == Last.arg
        pre == Last.pre
        col_beg == ToCol(pre, a.x_begin)
        row_beg == ToRow(pre, a.y_begin)
        col_end == ToCol(pre, a.x_end)
        row_end == ToRow(pre, a.y_end)
        lit == LineCells(a.ws)
    IN  IntAbs(col_end - col_beg) = IntAbs(row_end - row_beg) =>
          /\ <<col_beg, row_beg>> \in lit
          /\ <<col_end, row_end>> \in lit
          /\ \A r \in Min(row_beg, row_end)..Max(row_beg, row_end) :
               Cardinality({c \in lit : c[2] = r}) = 1
          /\ \A c \in lit : Min(row_beg, row_end) <= c[2] /\ c[2] <= Max(row_beg, row_end)

\* what the code does on equal deltas: the loop over columns, one cell in
\* each column from the begin cell's to the end cell's, the begin cell lit
LineTieByColumns ==
  Called("DrawLine") =>
    LET a == Last.arg
        pre == Last.pre
        col_beg == ToCol(pre, a.x_begin)
        col_end == ToCol(pre, a.x_end)
        lit == LineCells(a.ws)
    IN  IntAbs(col_end - col_beg) = IntAbs(ToRow(pre, a.y_end) - ToRow(pre, a.y_begin)) =>
          /\ ~LineByRows(pre, a.x_begin, a.y_begin, a.x_end, a.y_end)
          /\ <<col_beg, ToRow(pre, a.y_begin)>> \in lit
          /\ \A c \in Min(col_beg, col_end)..Max(col_beg, col_end) :
               Cardinality({d \in lit : d[1] = c}) = 1


\* C27: the FixedGamma of a string of n characters, 1 <= n <= 256, maps
\* every level 0..255 to a character of the string, the character's index
\* growing with the level, in bands of floor(256 / n) levels each, the last
\* band taking the remainder 256 mod n as well.
C27_EqualBands ==
  Called("FixedGamma") =>
    LET a == Last.arg
        n == Len(a.str)
        band == kLevels \div n
        index == Min(a.level \div band, n - 1)
    IN  /\ a.index = index
        /\ a.b.value = <<a.str[index + 1]>>

\* what holds: every level gets a character of the string, the index does
\* not decrease with the level, and the first 256 mod n bands are one level
\* longer than the others
GammaBandsFront ==
  Called("FixedGamma") =>
    LET a == Last.arg
        n == Len(a.str)
    IN  /\ a.index \in 0..(n - 1)
        /\ a.b.value = <<a.str[a.index + 1]>>
        /\ a.level > 0 => RecodedIndex(n, a.level - 1) \in {a.index - 1, a.index}
        /\ BandStart(n, a.index + 1) - BandStart(n, a.index)
             = (kLevels \div n) + (IF a.index < kLevels % n THEN 1 ELSE 0)


\* C28: the payload is read row by row at the format's stride: row i of a
\* 24-bit image starts at payload byte i * S24, S24 = 3W rounded up to a
\* multiple of 4, and row i of a 1-bit image at byte i * S1, S1 = ceil(W/8)
\* rounded up to a multiple of 4, for every width W.
C28_RowStride ==
  Called("ParsePayload") /\ Last.threw = "" =>
    LET a == Last.arg
    IN  \A i \in 1..a.height :
          a.row_start[i] = (i - 1) * Stride(a.bits_per_pixel, a.width)

\* what holds: 24-bit rows are read at the stride unless 3W is a multiple
\* of 4, where 4 bytes too many are skipped; 1-bit rows are read floor(W/8)
\* bytes apart
RowStrideAsRead ==
  Called("ParsePayload") /\ Last.threw = "" =>
    LET a == Last.arg
    IN  \A i \in 1..a.height :
          a.row_start[i] =
            (i - 1) * (IF a.bits_per_pixel = 1 THEN a.width \div 8
                       ELSE IF (3 * a.width) % 4 = 0 THEN 3 * a.width + 4
                       ELSE Stride(24, a.width))


\* C29: in PlotHistogram every sample's bin index
\* floor((value - xlimLeft) / binWidth) lies in [0, bins-1], for integer
\* data too and also when the canvas is narrower than the number of distinct
\* values; no count outside the bin array is touched.
C29_BinIndexInRange ==
  (Called("PlotHistogram") /\ Last.threw = "" /\ plot.nbins_ > 1) =>
    ~Last.arg.off_end

\* what holds: the index is in range when the integer step divides the
\* spread of the data evenly over the bins
BinIndexEvenSpread ==
  (Called("PlotHistogram") /\ Last.threw = "" /\ plot.nbins_ > 1) =>
    ((IntMax(Last.arg.data) - IntMin(Last.arg.data)) % (plot.nbins_ - 1) = 0
       => ~Last.arg.off_end)


\* C30: every cell written while drawing histogram bars lies inside the
\* canvas, for every resize factor (values >= 1.0 count as 1.0): the columns
\* written are within [0, W-1] and the rows written, the cap row at the
\* bar's height included, within [0, H-1].
C30_BarsOnCanvas ==
  (Called("PlotHistogram") /\ Last.threw = "" /\ plot.nbins_ > 1) =>
    ~Last.arg.off_grid

\* what holds: the bars stay on the canvas when the factor is below 1
BarsOnCanvasBelowOne ==
  (Called("PlotHistogram") /\ Last.threw = "" /\ plot.nbins_ > 1) =>
    (DblLess(Last.arg.height_resize, DblOf(1, 1)) => ~Last.arg.off_grid)

============================================================================
